---- MODULE Spec2Model ----
(***************************************************************************)
(* Model of the vscode-imgbytesizer extension: the two command handlers    *)
(* (src/src/commands.ts), the subprocess runner and the path helpers       *)
(* (src/src/utils.ts).                                                     *)
(*                                                                         *)
(* Strings are sequences of one-character strings, so that the path and    *)
(* text functions are computed character by character.  An optional value  *)
(* (a JavaScript value that may be undefined or null) is a sequence of     *)
(* length at most one: None is undefined/null, Some(v) is the value v.     *)
(* A message built by a template literal is the sequence of its literal    *)
(* and interpolated parts.                                                 *)
(***************************************************************************)
EXTENDS Integers, Sequences, FiniteSets, TLC

VARIABLES fs, config, edits, activeEditor, proc, h

vars == <<fs, config, edits, activeEditor, proc, h>>

----------------------------------------------------------------------------
(* Bounds of the model.                                                    *)

MaxInv == 2

(* How many times the settings are edited during a run.                    *)
MaxConfigEdits == 1

Inv == 1..MaxInv

----------------------------------------------------------------------------
(* Optional values.                                                        *)

None == <<>>

Some(v) == <<v>>

IsSet(x) == x # None

(* The JavaScript truthiness of an optional string: present and non-empty. *)
TruthyStr(x) == x # None /\ x[1] # <<>>

(* The JavaScript truthiness of an optional number: present and non-zero.  *)
TruthyNum(x) == x # None /\ x[1] # 0

(* a ?? b *)
Coalesce(x, d) == IF x # None THEN x[1] ELSE d

----------------------------------------------------------------------------
(* Character helpers.                                                      *)

UpperChars == <<"A","B","C","D","E","F","G","H","I","J","K","L","M",
                "N","O","P","Q","R","S","T","U","V","W","X","Y","Z">>

LowerChars == <<"a","b","c","d","e","f","g","h","i","j","k","l","m",
                "n","o","p","q","r","s","t","u","v","w","x","y","z">>

DigitChars == <<"0","1","2","3","4","5","6","7","8","9">>

LowerChar(c) ==
  IF \E k \in 1..26 : UpperChars[k] = c
  THEN LowerChars[CHOOSE k \in 1..26 : UpperChars[k] = c]
  ELSE c

toLowerCase(s) == [k \in 1..Len(s) |-> LowerChar(s[k])]

(* s.slice(a, b) with the 0-based, end-exclusive indices of JavaScript.    *)
Slice(s, a, b) == SubSeq(s, a + 1, b)

startsWith(s, pre) == Len(s) >= Len(pre) /\ SubSeq(s, 1, Len(pre)) = pre

RECURSIVE NatToString(_)
NatToString(n) ==
  IF n < 10 THEN <<DigitChars[n + 1]>>
  ELSE NatToString(n \div 10) \o <<DigitChars[(n % 10) + 1]>>

(* Number.prototype.toString() of an integer.                              *)
NumToString(n) == IF n < 0 THEN <<"-">> \o NatToString(0 - n) ELSE NatToString(n)

----------------------------------------------------------------------------
(* Node's POSIX path module, as used by utils.ts and commands.ts.          *)

(* The backward scan shared by path.parse and path.extname: st carries the *)
(* loop variables, i runs from len-1 down to start (0-based).              *)
RECURSIVE ParseScan(_, _, _, _)
ParseScan(p, i, start, st) ==
  IF i < start THEN st
  ELSE
    LET c == p[i + 1] IN
    IF c = "/" THEN
      IF ~st.matchedSlash
      THEN [st EXCEPT !.startPart = i + 1]
      ELSE ParseScan(p, i - 1, start, st)
    ELSE
      LET s1 == IF st.end = -1
                THEN [st EXCEPT !.matchedSlash = FALSE, !.end = i + 1]
                ELSE st
          s2 == IF c = "."
                THEN IF s1.startDot = -1 THEN [s1 EXCEPT !.startDot = i]
                     ELSE IF s1.preDotState # 1 THEN [s1 EXCEPT !.preDotState = 1]
                     ELSE s1
                ELSE IF s1.startDot # -1 THEN [s1 EXCEPT !.preDotState = -1]
                ELSE s1
      IN ParseScan(p, i - 1, start, s2)

PathParse(p) ==
  IF Len(p) = 0 THEN [root |-> <<>>, dir |-> <<>>, base |-> <<>>, ext |-> <<>>, name |-> <<>>]
  ELSE
    LET isAbsolute == p[1] = "/"
        start == IF isAbsolute THEN 1 ELSE 0
        st == ParseScan(p, Len(p) - 1, start,
                        [startDot |-> -1, startPart |-> 0, end |-> -1,
                         matchedSlash |-> TRUE, preDotState |-> 0])
        start2 == IF st.startPart = 0 /\ isAbsolute THEN 1 ELSE st.startPart
        noExt == \/ st.startDot = -1
                 \/ st.preDotState = 0
                 \/ (st.preDotState = 1 /\ st.startDot = st.end - 1
                     /\ st.startDot = st.startPart + 1)
    IN [root |-> IF isAbsolute THEN <<"/">> ELSE <<>>,
        dir  |-> IF st.startPart > 0 THEN Slice(p, 0, st.startPart - 1)
                 ELSE IF isAbsolute THEN <<"/">> ELSE <<>>,
        base |-> IF st.end = -1 THEN <<>> ELSE Slice(p, start2, st.end),
        ext  |-> IF st.end = -1 \/ noExt THEN <<>> ELSE Slice(p, st.startDot, st.end),
        name |-> IF st.end = -1 THEN <<>>
                 ELSE IF noExt THEN Slice(p, start2, st.end)
                 ELSE Slice(p, start2, st.startDot)]

extname(p) == PathParse(p).ext

(* path.dirname: the scan for the last separator that precedes the last    *)
(* component, ignoring trailing separators; -1 when there is none.         *)
RECURSIVE DirnameScan(_, _, _)
DirnameScan(p, i, matchedSlash) ==
  IF i < 1 THEN -1
  ELSE IF p[i + 1] = "/"
       THEN IF ~matchedSlash THEN i ELSE DirnameScan(p, i - 1, matchedSlash)
       ELSE DirnameScan(p, i - 1, FALSE)

dirname(p) ==
  IF Len(p) = 0 THEN <<".">>
  ELSE
    LET hasRoot == p[1] = "/"
        end == DirnameScan(p, Len(p) - 1, TRUE)
    IN IF end = -1 THEN (IF hasRoot THEN <<"/">> ELSE <<".">>)
       ELSE IF hasRoot /\ end = 1 THEN <<"/", "/">>
       ELSE Slice(p, 0, end)

(* The segments of a path between its separators.                          *)
RECURSIVE SplitSegs(_, _, _)
SplitSegs(p, k, cur) ==
  IF k > Len(p) THEN <<cur>>
  ELSE IF p[k] = "/" THEN <<cur>> \o SplitSegs(p, k + 1, <<>>)
  ELSE SplitSegs(p, k + 1, Append(cur, p[k]))

(* normalizeString: drop empty and "." segments, resolve ".." segments.    *)
RECURSIVE NormSegs(_, _, _, _)
NormSegs(segs, k, res, allowAboveRoot) ==
  IF k > Len(segs) THEN res
  ELSE
    LET s == segs[k] IN
    IF s = <<>> \/ s = <<".">> THEN NormSegs(segs, k + 1, res, allowAboveRoot)
    ELSE IF s = <<".", ".">> THEN
      IF Len(res) > 0 /\ res[Len(res)] # <<".", ".">>
      THEN NormSegs(segs, k + 1, SubSeq(res, 1, Len(res) - 1), allowAboveRoot)
      ELSE IF allowAboveRoot THEN NormSegs(segs, k + 1, Append(res, s), allowAboveRoot)
      ELSE NormSegs(segs, k + 1, res, allowAboveRoot)
    ELSE NormSegs(segs, k + 1, Append(res, s), allowAboveRoot)

RECURSIVE JoinSegs(_, _)
JoinSegs(segs, k) ==
  IF k > Len(segs) THEN <<>>
  ELSE IF k = Len(segs) THEN segs[k]
  ELSE segs[k] \o <<"/">> \o JoinSegs(segs, k + 1)

normalize(p) ==
  IF Len(p) = 0 THEN <<".">>
  ELSE
    LET isAbsolute == p[1] = "/"
        trailingSeparator == p[Len(p)] = "/"
        body == JoinSegs(NormSegs(SplitSegs(p, 1, <<>>), 1, <<>>, ~isAbsolute), 1)
    IN IF Len(body) = 0
       THEN (IF isAbsolute THEN <<"/">>
             ELSE IF trailingSeparator THEN <<".", "/">> ELSE <<".">>)
       ELSE (IF isAbsolute THEN <<"/">> ELSE <<>>) \o body
            \o (IF trailingSeparator THEN <<"/">> ELSE <<>>)

(* path.join(a, b): the non-empty arguments joined by "/" and normalized.  *)
pathJoin(a, b) ==
  IF Len(a) = 0 /\ Len(b) = 0 THEN <<".">>
  ELSE IF Len(a) = 0 THEN normalize(b)
  ELSE IF Len(b) = 0 THEN normalize(a)
  ELSE normalize(a \o <<"/">> \o b)

----------------------------------------------------------------------------
(* String constants of the program and of the modelled environment.        *)

StrImgbytesizer == <<"i","m","g","b","y","t","e","s","i","z","e","r">>

StrSame == <<"s","a","m","e">>

StrNull == <<"n","u","l","l">>

StrYes == <<"Y","e","s">>

StrNo == <<"N","o">>

StrOpenFile == <<"O","p","e","n"," ","F","i","l","e">>

StrCustomOption == <<"C","u","s","t","o","m"," ","s","i","z","e",".",".",".">>

WhiteSpace == {" ", "\t", "\n", "\r"}

(* The grave accent cannot be written in a string of this language: the    *)
(* token "GRAVE" stands for that one character.                            *)
Grave == "GRAVE"

ShellMeta == {";", "&", "|", Grave, "$"}

----------------------------------------------------------------------------
(* src/src/utils.ts: the pure helpers.                                     *)

RECURSIVE TrimLeft(_)
TrimLeft(s) == IF Len(s) > 0 /\ s[1] \in WhiteSpace THEN TrimLeft(Tail(s)) ELSE s

RECURSIVE TrimRight(_)
TrimRight(s) ==
  IF Len(s) > 0 /\ s[Len(s)] \in WhiteSpace THEN TrimRight(SubSeq(s, 1, Len(s) - 1)) ELSE s

trim(s) == TrimRight(TrimLeft(s))

(* path.replace(regex, empty): remove every character of ShellMeta. *)
(* Faulty variant: nothing is removed.                                     *)
StripMetaKeepsAll(s) == s

StripMeta(s) == SelectSeq(s, LAMBDA c : c \notin ShellMeta)

(* Faulty variant: the sanitized path is never rejected.                   *)
validateImgbytesizerPathAcceptsAll(path) == Some(StripMeta(path))

(* validateImgbytesizerPath: Some(sanitized), or None when it throws.      *)
validateImgbytesizerPath(path) ==
  LET sanitized == StripMeta(path) IN
  IF sanitized = StrImgbytesizer THEN Some(sanitized)
  ELSE IF ~startsWith(sanitized, <<"/">>) /\ ~startsWith(sanitized, <<".", "/">>) THEN None
  ELSE Some(sanitized)

(* Faulty variant: the configured value is not trimmed.                    *)
getImgbytesizerPathNoTrim(cfg) ==
  LET path == IF TruthyStr(cfg.imgbytesizerPath) THEN cfg.imgbytesizerPath[1]
              ELSE StrImgbytesizer
      validated == validateImgbytesizerPath(path)
  IN IF validated # None THEN validated[1] ELSE StrImgbytesizer

getImgbytesizerPath(cfg) ==
  LET path == IF TruthyStr(cfg.imgbytesizerPath) THEN trim(cfg.imgbytesizerPath[1])
              ELSE StrImgbytesizer
      validated == validateImgbytesizerPath(path)
  IN IF validated # None THEN validated[1] ELSE StrImgbytesizer

getDefaultOptions(cfg) ==
  [exactSize    |-> Some(Coalesce(cfg.defaultExact, TRUE)),
   format       |-> Some(Coalesce(cfg.defaultFormat, StrSame)),
   minDimension |-> Some(Coalesce(cfg.defaultMinDimension, 0)),
   targetSize   |-> Some(Coalesce(cfg.defaultTargetSize, <<"5","0","0","K","B">>))]

(* Faulty variant: the format same is not told apart from the others.      *)
getDefaultOutputPathAnyFormat(imagePath, format) ==
  LET parsedPath == PathParse(imagePath)
      newExt == IF TruthyStr(format) THEN <<".">> \o format[1] ELSE parsedPath.ext
      baseName == pathJoin(parsedPath.dir, parsedPath.name)
  IN baseName \o <<"_","r","e","s","i","z","e","d">> \o newExt

(* Faulty variant: the suffix _resized is left out.                        *)
getDefaultOutputPathNoSuffix(imagePath, format) ==
  LET parsedPath == PathParse(imagePath)
      newExt == IF TruthyStr(format) /\ format[1] # StrSame
                THEN <<".">> \o format[1] ELSE parsedPath.ext
      baseName == pathJoin(parsedPath.dir, parsedPath.name)
  IN baseName \o newExt

(* format is an optional string (the parameter may be omitted).            *)
getDefaultOutputPath(imagePath, format) ==
  LET parsedPath == PathParse(imagePath)
      newExt == IF TruthyStr(format) /\ format[1] # StrSame
                THEN <<".">> \o format[1] ELSE parsedPath.ext
      baseName == pathJoin(parsedPath.dir, parsedPath.name)
  IN baseName \o <<"_","r","e","s","i","z","e","d">> \o newExt

IsDigit(c) == \E k \in 1..10 : DigitChars[k] = c

(* The number of leading digits of s from position k on.                   *)
RECURSIVE DigitRun(_, _)
DigitRun(s, k) == IF k <= Len(s) /\ IsDigit(s[k]) THEN 1 + DigitRun(s, k + 1) ELSE 0

(* Faulty variant: the unit is optional.                                   *)
isValidTargetSizeOptionalUnit(targetSize) ==
  LET n1 == DigitRun(targetSize, 1)
      hasDot == n1 + 1 <= Len(targetSize) /\ targetSize[n1 + 1] = "."
      n2 == IF hasDot THEN DigitRun(targetSize, n1 + 2) ELSE 0
      unitStart == IF hasDot /\ n2 > 0 THEN n1 + 2 + n2 ELSE n1 + 1
      unit == toLowerCase(SubSeq(targetSize, unitStart, Len(targetSize)))
  IN n1 > 0 /\ unit \in {<<"k","b">>, <<"m","b">>, <<"b">>, <<>>}

(* Faulty variant: the pattern is not anchored at the end.                 *)
isValidTargetSizeUnanchored(targetSize) ==
  LET n1 == DigitRun(targetSize, 1)
      hasDot == n1 + 1 <= Len(targetSize) /\ targetSize[n1 + 1] = "."
      n2 == IF hasDot THEN DigitRun(targetSize, n1 + 2) ELSE 0
      unitStart == IF hasDot /\ n2 > 0 THEN n1 + 2 + n2 ELSE n1 + 1
      unit == toLowerCase(SubSeq(targetSize, unitStart, Len(targetSize)))
  IN n1 > 0 /\ (startsWith(unit, <<"k","b">>) \/ startsWith(unit, <<"m","b">>)
                \/ startsWith(unit, <<"b">>))

(* /^\d+(\.\d+)?(KB|MB|B)$/i.test(targetSize) *)
isValidTargetSize(targetSize) ==
  LET n1 == DigitRun(targetSize, 1)
      hasDot == n1 + 1 <= Len(targetSize) /\ targetSize[n1 + 1] = "."
      n2 == IF hasDot THEN DigitRun(targetSize, n1 + 2) ELSE 0
      (* the optional group matches only with at least one digit after the dot *)
      unitStart == IF hasDot /\ n2 > 0 THEN n1 + 2 + n2 ELSE n1 + 1
      unit == toLowerCase(SubSeq(targetSize, unitStart, Len(targetSize)))
  IN n1 > 0 /\ unit \in {<<"k","b">>, <<"m","b">>, <<"b">>}

RECURSIVE DigitsValue(_, _, _)
DigitsValue(s, k, acc) ==
  IF k <= Len(s) /\ IsDigit(s[k])
  THEN DigitsValue(s, k + 1, 10 * acc + ((CHOOSE d \in 1..10 : DigitChars[d] = s[k]) - 1))
  ELSE acc

(* parseInt(value, 10): Some(n), or None for NaN.                          *)
parseInt(value) ==
  LET t == TrimLeft(value)
      neg == Len(t) > 0 /\ t[1] = "-"
      signed == Len(t) > 0 /\ t[1] \in {"-", "+"}
      body == IF signed THEN Tail(t) ELSE t
  IN IF DigitRun(body, 1) = 0 THEN None
     ELSE Some(IF neg THEN 0 - DigitsValue(body, 1, 0) ELSE DigitsValue(body, 1, 0))

(* Faulty variant: --min-dimension is pushed whenever minDimension is defined.*)
RunnerArgsMinZero(imagePath, options) ==
  <<imagePath, options.targetSize>>
  \o (IF TruthyStr(options.outputPath) THEN <<<<"-","o">>, options.outputPath[1]>> ELSE <<>>)
  \o (IF TruthyStr(options.format) /\ options.format[1] # StrSame
      THEN <<<<"-","f">>, options.format[1]>> ELSE <<>>)
  \o (IF options.minDimension # None
      THEN <<<<"-","-","m","i","n","-","d","i","m","e","n","s","i","o","n">>,
             NumToString(options.minDimension[1])>> ELSE <<>>)
  \o (IF options.exactSize = Some(FALSE) THEN <<<<"-","-","n","o","-","e","x","a","c","t">>>> ELSE <<>>)

(* The argument vector built inline by runImgbytesizer.                    *)
RunnerArgs(imagePath, options) ==
  <<imagePath, options.targetSize>>
  \o (IF TruthyStr(options.outputPath) THEN <<<<"-","o">>, options.outputPath[1]>> ELSE <<>>)
  \o (IF TruthyStr(options.format) /\ options.format[1] # StrSame
      THEN <<<<"-","f">>, options.format[1]>> ELSE <<>>)
  \o (IF TruthyNum(options.minDimension) /\ options.minDimension[1] > 0
      THEN <<<<"-","-","m","i","n","-","d","i","m","e","n","s","i","o","n">>, NumToString(options.minDimension[1])>> ELSE <<>>)
  \o (IF options.exactSize = Some(FALSE) THEN <<<<"-","-","n","o","-","e","x","a","c","t">>>> ELSE <<>>)

(* Faulty variant: the minimum dimension is emitted whenever it is set.    *)
buildCommandAnyDimension(cfg, imagePath, options) ==
  getImgbytesizerPath(cfg) \o <<" ", "\"">> \o imagePath \o <<"\"", " ">> \o options.targetSize
  \o (IF TruthyStr(options.outputPath)
      THEN <<" ","-","o"," ","\"">> \o options.outputPath[1] \o <<"\"">> ELSE <<>>)
  \o (IF TruthyStr(options.format) /\ options.format[1] # StrSame
      THEN <<" ","-","f"," ">> \o options.format[1] ELSE <<>>)
  \o (IF options.minDimension # None
      THEN <<" ","-","-","m","i","n","-","d","i","m","e","n","s","i","o","n"," ">> \o NumToString(options.minDimension[1]) ELSE <<>>)
  \o (IF options.exactSize = Some(FALSE) THEN <<" ","-","-","n","o","-","e","x","a","c","t">> ELSE <<>>)

(* The shell command string of buildCommand.                               *)
buildCommand(cfg, imagePath, options) ==
  getImgbytesizerPath(cfg) \o <<" ", "\"">> \o imagePath \o <<"\"", " ">> \o options.targetSize
  \o (IF TruthyStr(options.outputPath)
      THEN <<" ","-","o"," ","\"">> \o options.outputPath[1] \o <<"\"">> ELSE <<>>)
  \o (IF TruthyStr(options.format) /\ options.format[1] # StrSame
      THEN <<" ","-","f"," ">> \o options.format[1] ELSE <<>>)
  \o (IF TruthyNum(options.minDimension) /\ options.minDimension[1] > 0
      THEN <<" ","-","-","m","i","n","-","d","i","m","e","n","s","i","o","n"," ">> \o NumToString(options.minDimension[1]) ELSE <<>>)
  \o (IF options.exactSize = Some(FALSE) THEN <<" ","-","-","n","o","-","e","x","a","c","t">> ELSE <<>>)

----------------------------------------------------------------------------
(* The bounded environment: files, configurations, prompt answers and      *)
(* process outcomes the model draws from.                                  *)

ImgJpg == <<"/","d","/","a",".","j","p","g">>

ImgPng == <<"/","e","/","B",".","P","N","G">>

ImgTxt == <<"/","d","/","n",".","t","x","t">>

OutCustom == <<"/","o","/","c",".","p","n","g">>

ImgJpgResized == <<"/","d","/","a","_","r","e","s","i","z","e","d",".","j","p","g">>

EditorPng == Some([scheme |-> "file", fsPath |-> ImgPng])

EditorUntitled == Some([scheme |-> "untitled", fsPath |-> <<"U","n","t","i","t","l","e","d","-","1">>])

(* How a command is invoked: its URI argument and the active editor.       *)
StartContexts ==
  {[uri |-> Some(ImgJpg), editor |-> None],
   [uri |-> Some(ImgJpg), editor |-> EditorPng],
   [uri |-> Some(ImgTxt), editor |-> EditorPng],
   [uri |-> None, editor |-> EditorPng],
   [uri |-> None, editor |-> EditorUntitled],
   [uri |-> None, editor |-> None]}

FsBase == {<<"/","d">>, <<"/","e">>, ImgJpg, ImgPng, ImgTxt}

FsInits == {{}, FsBase, FsBase \cup {ImgJpgResized, <<"/","o">>, OutCustom}}

CfgDefault ==
  [imgbytesizerPath |-> None, defaultExact |-> None, defaultFormat |-> None,
   defaultMinDimension |-> None, defaultTargetSize |-> None]

CfgCustom ==
  [imgbytesizerPath |-> Some(<<" ","/","u","/","i","b","s">>), defaultExact |-> Some(FALSE),
   defaultFormat |-> Some(<<"p","n","g">>), defaultMinDimension |-> Some(50),
   defaultTargetSize |-> Some(<<"2","0","0","K","B">>)]

Configs == {CfgDefault, CfgCustom}

(* showTargetSizeQuickPick: the preset list and the custom entry.          *)
defaultOptions == <<<<"1","0","0","K","B">>, <<"2","5","0","K","B">>, <<"5","0","0","K","B">>, <<"1","M","B">>, <<"2","M","B">>, <<"5","M","B">>, <<"1","0","M","B">>>>

customOption == StrCustomOption

(* showFormatQuickPick: the offered format values.                         *)
formats == <<StrSame, <<"j","p","g">>, <<"p","n","g">>, <<"w","e","b","p">>>>

(* The answers the modelled user gives.                                    *)
PickedSizes == {defaultOptions[4], customOption}

SizeInputs == {<<"1",".","5","M","B">>, <<"1","0">>, <<>>}

PickedFormats == {formats[1], formats[3]}

MinDimInputs == {<<"0">>, <<"1","5","0">>, <<"1","2","p","x">>, <<"a","b","c">>}

ExactAnswers == {StrYes, StrNo}

(* Options values a direct caller of runImgbytesizer passes.               *)
DirectOptions ==
  [targetSize   : {<<"1","M","B">>},
   outputPath   : {None, Some(<<>>), Some(OutCustom)},
   format       : {None, Some(StrSame), Some(<<"p","n","g">>), Some(<<>>)},
   minDimension : {None, Some(0), Some(200), Some(-5)},
   exactSize    : {None, Some(TRUE), Some(FALSE)}]

DirectImages == {ImgJpg, ImgTxt}

StdOut == <<"d","o","n","e">>

StdErr == <<"b","a","d">>

ErrSpawn == <<"s","p","a","w","n","S","y","n","c"," ","E","N","O","E","N","T">>

ErrMkdir == <<"E","A","C","C","E","S">>

ErrThrown == <<"E","R","R","_","I","N","V","A","L","I","D","_","A","R","G","_","V","A","L","U","E">>

----------------------------------------------------------------------------
(* The filesystem: fs is the set of paths that exist.                      *)

existsSync(files, p) == p \in files \/ p \in {<<"/">>, <<".">>}

RECURSIVE Ancestors(_)
Ancestors(p) ==
  LET d == dirname(p) IN
  IF Len(d) >= Len(p) \/ d \in {<<"/">>, <<".">>} THEN {}
  ELSE {d} \cup Ancestors(d)

(* fs.mkdirSync(dir, {recursive: true}) when it succeeds.                  *)
mkdirSync(files, dir) == files \cup {dir} \cup Ancestors(dir)

(* The external tool writing a file at p.                                  *)
WriteFile(files, p) == files \cup {p} \cup Ancestors(p)

----------------------------------------------------------------------------
(* Events: what an invocation did, in order.                               *)

EvSpawn(file, args, shell) ==
  [ev |-> "spawnSync", file |-> file, args |-> args, shell |-> shell]

EvExists(p) == [ev |-> "existsSync", path |-> p]

EvMkdir(dir) == [ev |-> "mkdirSync", path |-> dir]

EvRun(imagePath, options) ==
  [ev |-> "runImgbytesizer", imagePath |-> imagePath, options |-> options]

(* The answer a prompt returned, None when it was dismissed.               *)
EvAnswer(what, value) == [ev |-> "answer", what |-> what, value |-> value]

EvQuickPick(what) == [ev |-> "showQuickPick", what |-> what]

(* The pre-filled value of an input box is not recorded.                   *)
EvInputBox(what) == [ev |-> "showInputBox", what |-> what]

EvProgress(title) == [ev |-> "withProgress", title |-> title]

EvError(msg) == [ev |-> "showErrorMessage", msg |-> msg]

EvInfo(msg, items) == [ev |-> "showInformationMessage", msg |-> msg, items |-> items]

EvOpen(path) == [ev |-> "executeCommand", command |-> "vscode.open", path |-> path]

EvReport(msg) == [ev |-> "report", msg |-> msg]

(* The item of the success notification the user chose, None when the      *)
(* notification was dismissed.                                             *)
EvChoice(item) == [ev |-> "choice", item |-> item]

(* An awaited call rejected with an error of this message.                 *)
EvThrow(msg) == [ev |-> "throw", msg |-> msg]

MsgNotInstalled ==
  <<"ImgByteSizer is not installed. Please install it first. https://github.com/pyyupsk/imgbytesizer#installation">>

MsgNoFile == <<"Please select an image file in the explorer or editor.">>

MsgUnsupported == <<"Selected file is not a supported image (jpg, jpeg, png, webp).">>

(* Faulty variant: a text file passes the extension check.                 *)
SupportedExtsAndTxt ==
  {<<".","j","p","e","g">>, <<".","j","p","g">>, <<".","p","n","g">>, <<".","w","e","b","p">>,
   <<".","t","x","t">>}

SupportedExts == {<<".","j","p","e","g">>, <<".","j","p","g">>, <<".","p","n","g">>, <<".","w","e","b","p">>}

----------------------------------------------------------------------------
(* State.                                                                  *)
(*   fs            the paths that exist on the filesystem                  *)
(*   config        the imgbytesizer section of the configuration store     *)
(*   edits         how many times the settings were edited                 *)
(*   activeEditor  vscode.window.activeTextEditor (its document URI)       *)
(*   proc          the invocation whose spawnSync call blocks the event    *)
(*                 loop, None when no external process is running          *)
(*   h             per invocation: position, locals and the event trace    *)

IdleInv ==
  [pc |-> "idle", kind |-> "none", uri |-> None, isInstalled |-> FALSE,
   imagePath |-> None, targetSize |-> None, format |-> None,
   defaultOutputPath |-> None, outputPath |-> None, minDimension |-> None,
   defaults |-> None, options |-> None, run |-> None, spawned |-> None,
   outcome |-> None, result |-> None, probe |-> None, validated |-> None,
   trace |-> <<>>]

Init ==
  /\ fs \in FsInits
  /\ config \in Configs
  /\ edits = 0
  /\ activeEditor = None
  /\ proc = None
  /\ h = [i \in Inv |-> IdleInv]

(* The handler returns: nothing of the invocation runs after this.         *)
Return(me, evs) == [me EXCEPT !.pc = "done", !.trace = @ \o evs]

----------------------------------------------------------------------------
(* checkImgbytesizerInstalled, called first by both handlers.              *)

ProbeOutcomes ==
  {[threw |-> TRUE, status |-> None]}
  \cup {[threw |-> FALSE, status |-> st] : st \in {Some(0), Some(1), None}}

(* resizeImage / resizeImageWithOptions is invoked with the URI argument   *)
(* uri while editor is the active editor: the version probe is spawned     *)
(* synchronously.                                                          *)
Start(i, kind, uri, editor) ==
  /\ proc = None
  /\ h[i].pc = "idle"
  /\ activeEditor' = editor
  /\ h' = [h EXCEPT ![i] = [@ EXCEPT !.pc = "probe", !.kind = kind, !.uri = uri,
             !.trace = Append(@, EvSpawn(getImgbytesizerPath(config), <<<<"-","v">>>>, FALSE))]]
  /\ proc' = Some(i)
  /\ UNCHANGED <<fs, config, edits>>

(* Faulty variant: a falsy status (null included) passes for installed.    *)
checkImgbytesizerInstalledFalsy(r) == ~r.threw /\ ~TruthyNum(r.status)

(* Lines 45-54 of utils.ts: what checkImgbytesizerInstalled returns when   *)
(* spawnSync returned r or threw: result.status === 0, false in the catch. *)
checkImgbytesizerInstalled(r) == ~r.threw /\ r.status = Some(0)

(* spawnSync of the probe returns (or throws) and                          *)
(* checkImgbytesizerInstalled returns to the handler.                      *)
ProbeReturn(i, r) ==
  /\ proc = Some(i)
  /\ h[i].pc = "probe"
  /\ h' = [h EXCEPT ![i] = [@ EXCEPT !.pc = "probed", !.probe = Some(r),
             !.isInstalled = checkImgbytesizerInstalled(r)]]
  /\ proc' = None
  /\ UNCHANGED <<fs, config, edits, activeEditor>>

(* Faulty variant: the active editor is preferred to the URI argument.     *)
ResolveImagePathEditorFirst(uri, editor) ==
  IF editor # None /\ editor[1].scheme = "file"
  THEN Some(editor[1].fsPath)
  ELSE uri

(* Lines 20-32 and 125-137: the image path of an invocation, None when     *)
(* there is neither a URI argument nor an active editor on a file.         *)
ResolveImagePath(uri, editor) ==
  IF uri # None THEN uri
  ELSE IF editor # None /\ editor[1].scheme = "file"
       THEN Some(editor[1].fsPath)
       ELSE None

(* Faulty variant: the result of the install check is not looked at.       *)
PrecheckNoInstallCheck(i) ==
  /\ proc = None
  /\ h[i].pc = "probed"
  /\ LET me == h[i]
         resolved == ResolveImagePath(me.uri, activeEditor)
     IN h' = [h EXCEPT ![i] =
          IF resolved = None THEN Return(me, <<EvError(MsgNoFile)>>)
          ELSE IF toLowerCase(extname(resolved[1])) \notin SupportedExts
               THEN Return([me EXCEPT !.imagePath = resolved], <<EvError(MsgUnsupported)>>)
          ELSE [me EXCEPT !.pc = "size_pick", !.imagePath = resolved,
                          !.trace = Append(@, EvQuickPick("size"))]]
  /\ UNCHANGED <<fs, config, edits, activeEditor, proc>>

(* Faulty variant: the size prompt is opened before the extension check.   *)
PrecheckPromptFirst(i) ==
  /\ proc = None
  /\ h[i].pc = "probed"
  /\ LET me == h[i]
         resolved == ResolveImagePath(me.uri, activeEditor)
     IN h' = [h EXCEPT ![i] =
          IF ~me.isInstalled THEN Return(me, <<EvError(MsgNotInstalled)>>)
          ELSE IF resolved = None THEN Return(me, <<EvError(MsgNoFile)>>)
          ELSE IF toLowerCase(extname(resolved[1])) \notin SupportedExts
               THEN Return([me EXCEPT !.imagePath = resolved],
                           <<EvQuickPick("size"), EvError(MsgUnsupported)>>)
          ELSE [me EXCEPT !.pc = "size_pick", !.imagePath = resolved,
                          !.trace = Append(@, EvQuickPick("size"))]]
  /\ UNCHANGED <<fs, config, edits, activeEditor, proc>>

(* After the probe: the install check, the resolution of the image path,   *)
(* the extension check and the first prompt of showTargetSizeQuickPick.    *)
Precheck(i) ==
  /\ proc = None
  /\ h[i].pc = "probed"
  /\ LET me == h[i]
         resolved == ResolveImagePath(me.uri, activeEditor)
     IN h' = [h EXCEPT ![i] =
          IF ~me.isInstalled THEN Return(me, <<EvError(MsgNotInstalled)>>)
          ELSE IF resolved = None THEN Return(me, <<EvError(MsgNoFile)>>)
          ELSE IF toLowerCase(extname(resolved[1])) \notin SupportedExts
               THEN Return([me EXCEPT !.imagePath = resolved], <<EvError(MsgUnsupported)>>)
          ELSE [me EXCEPT !.pc = "size_pick", !.imagePath = resolved,
                          !.trace = Append(@, EvQuickPick("size"))]]
  /\ UNCHANGED <<fs, config, edits, activeEditor, proc>>

----------------------------------------------------------------------------
(* The prompts.                                                            *)

ProgressTitle(targetSize) == <<"Resizing image to ", targetSize, "...">>

(* Faulty variant: the simple flow leaves the output path to the tool.     *)
SimpleOptionsNoOutput(cfg, imagePath, targetSize) ==
  LET d == getDefaultOptions(cfg) IN
  [exactSize    |-> d.exactSize,
   format       |-> IF d.format = Some(StrSame) THEN None ELSE d.format,
   minDimension |-> IF d.minDimension = Some(0) THEN None ELSE d.minDimension,
   outputPath   |-> None,
   targetSize   |-> targetSize]

(* resizeImage, lines 49-59: the options of the simple flow.               *)
SimpleOptions(cfg, imagePath, targetSize) ==
  LET d == getDefaultOptions(cfg) IN
  [exactSize    |-> d.exactSize,
   format       |-> IF d.format = Some(StrSame) THEN None ELSE d.format,
   minDimension |-> IF d.minDimension = Some(0) THEN None ELSE d.minDimension,
   outputPath   |-> Some(getDefaultOutputPath(imagePath, d.format)),
   targetSize   |-> targetSize]

(* Faulty variant: the target size is kept in a variable the invocations   *)
(* share, the last size any of them was given is the one that is used.     *)
ProceedShared(me, targetSize) ==
  LET given == {h[j].targetSize : j \in {n \in Inv : h[n].targetSize # None}}
      shared == IF given = {} THEN targetSize ELSE CHOOSE t \in given : TRUE
  IN IF me.kind = "simple"
     THEN [me EXCEPT !.pc = "progress", !.targetSize = targetSize,
                     !.defaults = Some(getDefaultOptions(config)),
                     !.options = Some(SimpleOptions(config, me.imagePath[1], shared[1])),
                     !.trace = Append(@, EvProgress(ProgressTitle(shared[1])))]
     ELSE [me EXCEPT !.pc = "format_pick", !.targetSize = shared,
                     !.trace = Append(@, EvQuickPick("format"))]

(* With a target size: the simple flow builds its options and opens the    *)
(* progress scope, the advanced flow goes on to the format prompt.         *)
Proceed(me, targetSize) ==
  IF me.kind = "simple"
  THEN [me EXCEPT !.pc = "progress", !.targetSize = targetSize,
                  !.defaults = Some(getDefaultOptions(config)),
                  !.options = Some(SimpleOptions(config, me.imagePath[1], targetSize[1])),
                  !.trace = Append(@, EvProgress(ProgressTitle(targetSize[1])))]
  ELSE [me EXCEPT !.pc = "format_pick", !.targetSize = targetSize,
                  !.trace = Append(@, EvQuickPick("format"))]

(* Faulty variant: a dismissed size prompt falls back to the configured size.*)
AfterTargetSizeFallback(me, targetSize) ==
  Proceed(me, IF TruthyStr(targetSize) THEN targetSize
              ELSE getDefaultOptions(config).targetSize)

(* The code that runs once showTargetSizeQuickPick has returned: the       *)
(* check !targetSize of both flows.                                        *)
AfterTargetSize(me, targetSize) ==
  IF ~TruthyStr(targetSize) THEN Return(me, <<>>) ELSE Proceed(me, targetSize)

(* The size quick pick is answered (None: dismissed).                      *)
AnswerSizePick(i, selected) ==
  /\ proc = None
  /\ h[i].pc = "size_pick"
  /\ LET me == [h[i] EXCEPT !.trace = Append(@, EvAnswer("size", selected))] IN
     h' = [h EXCEPT ![i] =
          IF selected = Some(customOption)
          THEN [me EXCEPT !.pc = "size_custom", !.trace = Append(@, EvInputBox("size"))]
          ELSE AfterTargetSize(me, selected)]
  /\ UNCHANGED <<fs, config, edits, activeEditor, proc>>

MsgInvalidSize == <<"Please enter a valid size (e.g., 500KB, 1.5MB)">>

(* Lines 281-286: the validateInput callback of the custom-size box, null  *)
(* (None) when the value is accepted.                                      *)
validateInput(value) == IF ~isValidTargetSize(value) THEN Some(MsgInvalidSize) ELSE None

(* The user edits the text of the custom-size box: the host calls          *)
(* validateInput on the text and shows the message it returns.  validated  *)
(* holds the last text and its verdict while the box is open.              *)
TypeSizeCustom(i, value) ==
  /\ proc = None
  /\ h[i].pc = "size_custom"
  /\ h' = [h EXCEPT ![i] = [@ EXCEPT !.validated =
             Some([value |-> value, message |-> validateInput(value)])]]
  /\ UNCHANGED <<fs, config, edits, activeEditor, proc>>

(* The custom-size input box is answered; the host accepts a value only    *)
(* when validateInput returned null for it.                                *)
AnswerSizeCustom(i, value) ==
  /\ proc = None
  /\ h[i].pc = "size_custom"
  /\ value # None => isValidTargetSize(value[1])
  /\ LET me == [h[i] EXCEPT !.validated = None,
                            !.trace = Append(@, EvAnswer("customSize", value))] IN
     h' = [h EXCEPT ![i] = AfterTargetSize(me, value)]
  /\ UNCHANGED <<fs, config, edits, activeEditor, proc>>

(* getUserOptions step 2: the format quick pick is answered.               *)
AnswerFormat(i, format) ==
  /\ proc = None
  /\ h[i].pc = "format_pick"
  /\ LET me == [h[i] EXCEPT !.trace = Append(@, EvAnswer("format", format))]
         defaultOutputPath ==
           getDefaultOutputPath(me.imagePath[1],
                                IF format = Some(StrSame) THEN None ELSE format)
     IN h' = [h EXCEPT ![i] =
          IF format = None THEN Return(me, <<>>)
          ELSE [me EXCEPT !.pc = "output_box", !.format = format,
                          !.defaultOutputPath = Some(defaultOutputPath),
                          !.trace = Append(@, EvInputBox("outputPath"))]]
  /\ UNCHANGED <<fs, config, edits, activeEditor, proc>>

(* Faulty variant: a dismissed output path box does not end the flow.      *)
AnswerOutputPathUnchecked(i, outputPath) ==
  /\ proc = None
  /\ h[i].pc = "output_box"
  /\ LET me == [h[i] EXCEPT !.trace = Append(@, EvAnswer("outputPath", outputPath))] IN
     h' = [h EXCEPT ![i] =
            [me EXCEPT !.pc = "mindim_box", !.outputPath = outputPath,
                       !.trace = Append(@, EvInputBox("minDimension"))]]
  /\ UNCHANGED <<fs, config, edits, activeEditor, proc>>

(* getUserOptions step 3: the output path box is answered.                 *)
AnswerOutputPath(i, outputPath) ==
  /\ proc = None
  /\ h[i].pc = "output_box"
  /\ LET me == [h[i] EXCEPT !.trace = Append(@, EvAnswer("outputPath", outputPath))] IN
     h' = [h EXCEPT ![i] =
          IF outputPath = None THEN Return(me, <<>>)
          ELSE [me EXCEPT !.pc = "mindim_box", !.outputPath = outputPath,
                          !.trace = Append(@, EvInputBox("minDimension"))]]
  /\ UNCHANGED <<fs, config, edits, activeEditor, proc>>

(* validateInput of the minimum-dimension box: TRUE when it returns null.  *)
MinDimensionAccepted(value) ==
  LET num == parseInt(value) IN ~(num = None \/ num[1] < 0)

(* getUserOptions step 4: the minimum-dimension box is answered.           *)
AnswerMinDimension(i, minDimensionInput) ==
  /\ proc = None
  /\ h[i].pc = "mindim_box"
  /\ minDimensionInput # None => MinDimensionAccepted(minDimensionInput[1])
  /\ LET me == [h[i] EXCEPT !.trace = Append(@, EvAnswer("minDimension", minDimensionInput))]
     IN
     h' = [h EXCEPT ![i] =
          IF minDimensionInput = None THEN Return(me, <<>>)
          ELSE [me EXCEPT !.pc = "exact_pick",
                          !.minDimension = parseInt(minDimensionInput[1]),
                          !.trace = Append(@, EvQuickPick("exactSize"))]]
  /\ UNCHANGED <<fs, config, edits, activeEditor, proc>>

(* Faulty variant: the chosen format and dimension are passed as they are. *)
AdvancedOptionsAsChosen(me, exactSizeResult) ==
  [exactSize    |-> Some(exactSizeResult = Some(StrYes)),
   format       |-> me.format,
   minDimension |-> me.minDimension,
   outputPath   |-> IF TruthyStr(me.outputPath) THEN me.outputPath ELSE me.defaultOutputPath,
   targetSize   |-> me.targetSize[1]]

(* Faulty variant: ?? in place of ||, an empty answer is kept.             *)
AdvancedOptionsEmptyPath(me, exactSizeResult) ==
  [exactSize    |-> Some(exactSizeResult = Some(StrYes)),
   format       |-> IF me.format = Some(StrSame) THEN None ELSE me.format,
   minDimension |-> IF me.minDimension = Some(0) THEN None ELSE me.minDimension,
   outputPath   |-> me.outputPath,
   targetSize   |-> me.targetSize[1]]

(* getUserOptions, lines 201-207: the options of the advanced flow.        *)
AdvancedOptions(me, exactSizeResult) ==
  [exactSize    |-> Some(exactSizeResult = Some(StrYes)),
   format       |-> IF me.format = Some(StrSame) THEN None ELSE me.format,
   minDimension |-> IF me.minDimension = Some(0) THEN None ELSE me.minDimension,
   outputPath   |-> IF TruthyStr(me.outputPath) THEN me.outputPath ELSE me.defaultOutputPath,
   targetSize   |-> me.targetSize[1]]

(* getUserOptions step 5: the exact-size pick is answered; with all five   *)
(* answers processImageResize opens the progress scope.                    *)
AnswerExact(i, exactSizeResult) ==
  /\ proc = None
  /\ h[i].pc = "exact_pick"
  /\ LET me == [h[i] EXCEPT !.trace = Append(@, EvAnswer("exactSize", exactSizeResult))] IN
     h' = [h EXCEPT ![i] =
          IF exactSizeResult = None THEN Return(me, <<>>)
          ELSE [me EXCEPT !.pc = "progress",
                          !.options = Some(AdvancedOptions(me, exactSizeResult)),
                          !.trace = Append(@, EvProgress(ProgressTitle(me.targetSize[1])))]]
  /\ UNCHANGED <<fs, config, edits, activeEditor, proc>>

----------------------------------------------------------------------------
(* runImgbytesizer.                                                        *)

EvDefaultPath(imagePath, format) ==
  [ev |-> "getDefaultOutputPath", imagePath |-> imagePath, format |-> format]

Failure(message) == [success |-> FALSE, message |-> message, outputPath |-> None]

(* The catch block of runImgbytesizer.                                     *)
Caught(errorMsg) == Failure(<<"Error: ", errorMsg>>)

(* String interpolation of result.status, a number or null.                *)
StatusString(status) == IF status = None THEN StrNull ELSE NumToString(status[1])

(* Faulty variant: the input existence check is skipped.                   *)
InputMissingNever(files, imagePath) == FALSE

(* Line 111: !fs.existsSync(imagePath)                                     *)
InputMissing(files, imagePath) == ~existsSync(files, imagePath)

(* Faulty variant: || in place of ??, an empty outputPath falls back too.  *)
ResolveOutputPathOr(imagePath, options) ==
  IF TruthyStr(options.outputPath) THEN options.outputPath[1]
  ELSE getDefaultOutputPath(imagePath, options.format)

(* Line 116: options.outputPath ?? getDefaultOutputPath(imagePath, format) *)
ResolveOutputPath(imagePath, options) ==
  Coalesce(options.outputPath, getDefaultOutputPath(imagePath, options.format))

(* Faulty variant: the resize process is started through the shell.        *)
RunnerSpawnShell(cfg, imagePath, options) ==
  EvSpawn(getImgbytesizerPath(cfg), RunnerArgs(imagePath, options), TRUE)

(* Lines 123-145: the spawnSync call of the resize process.                *)
RunnerSpawn(cfg, imagePath, options) ==
  EvSpawn(getImgbytesizerPath(cfg), RunnerArgs(imagePath, options), FALSE)

(* Faulty variant: the tool is spawned before the output directory is      *)
(* looked at.                                                              *)
RunnerMkdirAfterSpawn(files, imagePath, options, mkdirOk, outputPath, outputDir, needDir, spawn) ==
  LET evResolve == IF options.outputPath = None
                   THEN <<EvDefaultPath(imagePath, options.format)>> ELSE <<>>
      evDir == <<EvExists(outputDir)>> \o (IF needDir THEN <<EvMkdir(outputDir)>> ELSE <<>>)
  IN IF needDir /\ ~mkdirOk
     THEN [terminal |-> Some(Caught(ErrMkdir)),
           files |-> files, outputPath |-> Some(outputPath), spawn |-> None,
           evs |-> <<EvExists(imagePath)>> \o evResolve \o evDir]
     ELSE [terminal |-> None,
           files |-> IF needDir THEN mkdirSync(files, outputDir) ELSE files,
           outputPath |-> Some(outputPath), spawn |-> Some(spawn),
           evs |-> <<EvExists(imagePath)>> \o evResolve \o <<spawn>> \o evDir]

(* Lines 119-145: with the output directory known, mkdirSync when it is    *)
(* missing (mkdirOk tells whether it succeeds) and the spawnSync call.     *)
RunnerMkdir(files, imagePath, options, mkdirOk, outputPath, outputDir, needDir, spawn) ==
  LET evResolve == IF options.outputPath = None
                   THEN <<EvDefaultPath(imagePath, options.format)>> ELSE <<>>
      evDir == <<EvExists(outputDir)>> \o (IF needDir THEN <<EvMkdir(outputDir)>> ELSE <<>>)
  IN IF needDir /\ ~mkdirOk
     THEN [terminal |-> Some(Caught(ErrMkdir)),
           files |-> files, outputPath |-> Some(outputPath), spawn |-> None,
           evs |-> <<EvExists(imagePath)>> \o evResolve \o evDir]
     ELSE [terminal |-> None,
           files |-> IF needDir THEN mkdirSync(files, outputDir) ELSE files,
           outputPath |-> Some(outputPath), spawn |-> Some(spawn),
           evs |-> <<EvExists(imagePath)>> \o evResolve \o evDir \o <<spawn>>]

(* Faulty variant: the directory is created without the existence check.   *)
RunnerOutputDirAlways(files, imagePath, options, mkdirOk, outputPath, outputDir, spawn) ==
  RunnerMkdir(files, imagePath, options, mkdirOk, outputPath, outputDir, TRUE, spawn)

(* Lines 117-119: the directory of the resolved output path and whether it *)
(* exists.                                                                 *)
RunnerOutputDir(files, imagePath, options, mkdirOk, outputPath, outputDir, spawn) ==
  RunnerMkdir(files, imagePath, options, mkdirOk, outputPath, outputDir,
              ~existsSync(files, outputDir), spawn)

(* Lines 116-145 for an existing input, outputPath being the resolved      *)
(* output path and spawn the process the function starts.                  *)
RunnerPrepare(files, imagePath, options, mkdirOk, outputPath, spawn) ==
  RunnerOutputDir(files, imagePath, options, mkdirOk, outputPath, dirname(outputPath), spawn)

(* Lines 110-145: from the call up to the spawnSync call.  files is the    *)
(* filesystem at the call, mkdirOk tells whether mkdirSync succeeds when   *)
(* it is called.  terminal is the result when the function returns before  *)
(* spawning; spawn is the process started otherwise.                       *)
RunnerBegin(files, cfg, imagePath, options, mkdirOk) ==
  IF InputMissing(files, imagePath)
  THEN [terminal |-> Some(Failure(<<"Image file not found: ", imagePath>>)),
        files |-> files, outputPath |-> None, spawn |-> None,
        evs |-> <<EvExists(imagePath)>>]
  ELSE RunnerPrepare(files, imagePath, options, mkdirOk,
                     ResolveOutputPath(imagePath, options),
                     RunnerSpawn(cfg, imagePath, options))

(* Faulty variant: result.error is not looked at.                          *)
SpawnFailedIgnored(r) == FALSE

(* Line 147: result.error is set (the process could not be started).       *)
SpawnFailed(r) == r.error # None

(* Faulty variant: a truthiness test, a null status passes for success.    *)
ExitFailedTruthy(r) == TruthyNum(r.status)

(* Line 151: result.status !== 0                                           *)
ExitFailed(r) == r.status # Some(0)

(* Faulty variant: the exit status alone decides.                          *)
ArtifactMissingNever(files, outputPath) == FALSE

(* Line 158: !fs.existsSync(outputPath)                                    *)
ArtifactMissing(files, outputPath) == ~existsSync(files, outputPath)

(* Faulty variant: the success result omits outputPath.                    *)
SuccessResultNoPath(options, outputPath) ==
  [success |-> TRUE,
   message |-> <<"Image resized successfully to ", options.targetSize>>,
   outputPath |-> None]

(* Lines 165-169: the success result.                                      *)
SuccessResult(options, outputPath) ==
  [success |-> TRUE,
   message |-> <<"Image resized successfully to ", options.targetSize>>,
   outputPath |-> Some(outputPath)]

(* Lines 147-173: from the return of spawnSync to the result.  files is    *)
(* the filesystem after the process ended, r what spawnSync returned.      *)
RunnerEnd(files, options, outputPath, r) ==
  IF r.threw THEN [result |-> Caught(ErrThrown), evs |-> <<>>]
  ELSE IF SpawnFailed(r) THEN [result |-> Caught(r.error[1]), evs |-> <<>>]
  ELSE IF ExitFailed(r)
  THEN [result |-> Failure(<<"Command failed with status ", StatusString(r.status),
                            ". Error: ", r.stderr>>),
        evs |-> <<>>]
  ELSE IF ArtifactMissing(files, outputPath)
  THEN [result |-> Failure(<<"Failed to create output file: ", outputPath,
                            ". Command output: ", r.stdout>>),
        evs |-> <<EvExists(outputPath)>>]
  ELSE [result |-> SuccessResult(options, outputPath), evs |-> <<EvExists(outputPath)>>]

(* The value after a flag in an argument vector, None when it is absent.   *)
ArgAfter(args, flag) ==
  IF \E k \in 1..(Len(args) - 1) : args[k] = flag
  THEN Some(args[(CHOOSE k \in 1..(Len(args) - 1) : args[k] = flag) + 1])
  ELSE None

(* The file the external tool writes when it writes one: the path given    *)
(* after -o, else a name it derives from its input and the -f value.       *)
ToolTarget(args) ==
  Coalesce(ArgAfter(args, <<"-","o">>), getDefaultOutputPath(args[1], ArgAfter(args, <<"-","f">>)))

(* What spawnSync can return for the resize process: a thrown exception,   *)
(* a spawn error (status null), or an exit with a status (null when the    *)
(* process was killed by a signal) after writing the target file or not.   *)
SpawnOutcomes ==
  {[threw |-> TRUE, error |-> None, status |-> None, stdout |-> <<>>, stderr |-> <<>>,
    wrote |-> FALSE],
   [threw |-> FALSE, error |-> Some(ErrSpawn), status |-> None, stdout |-> <<>>,
    stderr |-> <<>>, wrote |-> FALSE]}
  \cup {[threw |-> FALSE, error |-> None, status |-> st, stdout |-> StdOut,
         stderr |-> StdErr, wrote |-> w] :
          st \in {Some(0), Some(1), None}, w \in BOOLEAN}

(* Where an invocation goes when the runner has returned: a handler shows  *)
(* the result, a direct caller just receives it.                           *)
AfterRun(me) == IF me.kind = "direct" THEN "done" ELSE "result"

(* The state after the first part of runImgbytesizer, b being what it     *)
(* did: the handler waits for the process or already holds a result.       *)
RunnerCalled(i, me, b) ==
  /\ fs' = b.files
  /\ proc' = IF b.terminal = None THEN Some(i) ELSE None
  /\ h' = [h EXCEPT ![i] =
            IF b.terminal = None
            THEN [me EXCEPT !.pc = "spawned", !.run = b.outputPath,
                            !.spawned = b.spawn,
                            !.trace = @ \o <<EvRun(me.imagePath[1], me.options[1])>> \o b.evs]
            ELSE [me EXCEPT !.pc = AfterRun(me), !.run = b.outputPath,
                            !.result = b.terminal,
                            !.trace = @ \o <<EvRun(me.imagePath[1], me.options[1])>> \o b.evs]]

(* runImgbytesizer is called (by the progress task of a handler or by a    *)
(* direct caller) and runs up to its spawnSync call or its early return.   *)
RunnerCall(i, mkdirOk) ==
  /\ proc = None
  /\ h[i].pc = "progress"
  /\ RunnerCalled(i, h[i],
                  RunnerBegin(fs, config, h[i].imagePath[1], h[i].options[1], mkdirOk))
  /\ UNCHANGED <<config, edits, activeEditor>>

(* The state after the second part of runImgbytesizer, e being its result  *)
(* and files the file system the process left.                             *)
RunnerReturned(i, me, r, files, e) ==
  /\ fs' = files
  /\ h' = [h EXCEPT ![i] = [me EXCEPT !.pc = AfterRun(me), !.result = Some(e.result),
                                      !.outcome = Some(r), !.trace = @ \o e.evs]]

(* Lines 147-173 on the file system the process left.                      *)
RunnerFinish(i, me, r, files) ==
  RunnerReturned(i, me, r, files, RunnerEnd(files, me.options[1], me.run[1], r))

(* The file system after the process wrote target (when it wrote).         *)
ToolWrites(files, r, target) ==
  IF r.wrote /\ target # <<>> THEN WriteFile(files, target) ELSE files

(* The external process ends and spawnSync returns: the rest of            *)
(* runImgbytesizer classifies the outcome.                                 *)
RunnerReturn(i, r) ==
  /\ proc = Some(i)
  /\ h[i].pc = "spawned"
  /\ RunnerFinish(i, h[i], r, ToolWrites(fs, r, ToolTarget(h[i].spawned[1].args)))
  /\ proc' = None
  /\ UNCHANGED <<config, edits, activeEditor>>

(* An external caller (such as the test suite) calls runImgbytesizer.      *)
DirectCall(i, imagePath, options) ==
  /\ proc = None
  /\ h[i].pc = "idle"
  /\ h' = [h EXCEPT ![i] = [@ EXCEPT !.pc = "progress", !.kind = "direct",
                                     !.imagePath = Some(imagePath),
                                     !.options = Some(options)]]
  /\ UNCHANGED <<fs, config, edits, activeEditor, proc>>

----------------------------------------------------------------------------
(* The result notification of the handlers.                                *)

(* Faulty variant: a failed run is tried again, the failed attempt being   *)
(* forgotten.                                                              *)
ShowResultRetries(i) ==
  /\ proc = None
  /\ h[i].pc = "result"
  /\ LET me == h[i]
         result == me.result[1]
         called == CHOOSE k \in 1..Len(me.trace) : me.trace[k].ev = "runImgbytesizer"
     IN h' = [h EXCEPT ![i] =
          IF result.success
          THEN [me EXCEPT !.pc = "info",
                          !.trace = Append(@, EvInfo(<<result.message, " Output saved to: ",
                                                       result.outputPath>>,
                                                     <<StrOpenFile>>))]
          ELSE [me EXCEPT !.pc = "progress", !.result = None, !.run = None,
                          !.spawned = None, !.outcome = None,
                          !.trace = SubSeq(@, 1, called - 1)]]
  /\ UNCHANGED <<fs, config, edits, activeEditor, proc>>

(* The progress task once runImgbytesizer has returned: lines 71-85 of     *)
(* resizeImage and 223-237 of processImageResize.                          *)
ShowResult(i) ==
  /\ proc = None
  /\ h[i].pc = "result"
  /\ LET me == h[i]
         result == me.result[1]
     IN h' = [h EXCEPT ![i] =
          IF result.success
          THEN [me EXCEPT !.pc = "info",
                          !.trace = Append(@, EvInfo(<<result.message, " Output saved to: ",
                                                       result.outputPath>>,
                                                     <<StrOpenFile>>))]
          ELSE Return(me, <<EvError(result.message)>>
                          \o (IF me.kind = "simple" THEN <<EvReport(result.message)>>
                              ELSE <<>>))]
  /\ UNCHANGED <<fs, config, edits, activeEditor, proc>>

(* Faulty variant: the output is opened whatever the user chose.           *)
AnswerInfoAlwaysOpens(i, openFile) ==
  /\ proc = None
  /\ h[i].pc = "info"
  /\ LET me == h[i]
         result == me.result[1]
     IN h' = [h EXCEPT ![i] =
          Return(me, <<EvChoice(openFile), EvOpen(result.outputPath[1])>>
                     \o (IF me.kind = "simple" THEN <<EvReport(result.message)>>
                         ELSE <<EvInfo(result.message, <<>>)>>))]
  /\ UNCHANGED <<fs, config, edits, activeEditor, proc>>

(* The success notification is answered or dismissed.                      *)
AnswerInfo(i, openFile) ==
  /\ proc = None
  /\ h[i].pc = "info"
  /\ LET me == h[i]
         result == me.result[1]
     IN h' = [h EXCEPT ![i] =
          Return(me, <<EvChoice(openFile)>> \o (IF openFile = Some(StrOpenFile) /\ TruthyStr(result.outputPath)
                      THEN <<EvOpen(result.outputPath[1])>> ELSE <<>>)
                     \o (IF me.kind = "simple" THEN <<EvReport(result.message)>>
                         ELSE <<EvInfo(result.message, <<>>)>>))]
  /\ UNCHANGED <<fs, config, edits, activeEditor, proc>>

(* The positions at which an invocation waits for an answer of the user.   *)
PromptPcs == {"size_pick", "size_custom", "format_pick", "output_box", "mindim_box",
              "exact_pick"}

(* The positions at which a handler awaits a call of the host that can     *)
(* reject: the prompts, withProgress and the success notification.         *)
AwaitPcs == PromptPcs \cup {"progress", "info"}

(* The messages of the errors a call of the host rejects with.             *)
HostErrors == {<<"C","a","n","c","e","l","e","d">>}

(* Faulty variant: the handler has no catch block, the error is not        *)
(* reported.                                                               *)
ThrowUncaught(i, errorMsg) ==
  /\ proc = None
  /\ h[i].pc \in AwaitPcs
  /\ h[i].kind \in {"simple", "advanced"}
  /\ h' = [h EXCEPT ![i] = Return(@, <<EvThrow(errorMsg)>>)]
  /\ UNCHANGED <<fs, config, edits, activeEditor, proc>>

(* The call of the host a handler awaits rejects with an error of message  *)
(* errorMsg: the catch block of the handler (lines 88-91 and 106-109)      *)
(* reports it and the handler returns.                                     *)
Throw(i, errorMsg) ==
  /\ proc = None
  /\ h[i].pc \in AwaitPcs
  /\ h[i].kind \in {"simple", "advanced"}
  /\ h' = [h EXCEPT ![i] =
            Return(@, <<EvThrow(errorMsg),
                        EvError(<<"Error resizing image: ", errorMsg>>)>>)]
  /\ UNCHANGED <<fs, config, edits, activeEditor, proc>>

(* The user edits the settings while an invocation waits at a prompt.      *)
ConfigChange(cfg) ==
  /\ cfg # config
  /\ edits < MaxConfigEdits
  /\ \E i \in Inv : h[i].pc \in PromptPcs
  /\ config' = cfg
  /\ edits' = edits + 1
  /\ UNCHANGED <<fs, activeEditor, proc, h>>

----------------------------------------------------------------------------
(* One invocation at a time: a handler or a direct call of the runner.     *)

Solo == CHOOSE i \in Inv : \A j \in Inv : i <= j

Next ==
  \/ \E kind \in {"simple", "advanced"}, c \in StartContexts :
       Start(Solo, kind, c.uri, c.editor)
  \/ \E r \in ProbeOutcomes : ProbeReturn(Solo, r)
  \/ Precheck(Solo)
  \/ \E selected \in {None} \cup {Some(s) : s \in PickedSizes} : AnswerSizePick(Solo, selected)
  \/ \E value \in SizeInputs : TypeSizeCustom(Solo, value)
  \/ \E value \in {None} \cup {Some(s) : s \in SizeInputs} : AnswerSizeCustom(Solo, value)
  \/ \E format \in {None} \cup {Some(f) : f \in PickedFormats} : AnswerFormat(Solo, format)
  \/ \E outputPath \in {None, Some(<<>>), Some(OutCustom), h[Solo].defaultOutputPath,
                        h[Solo].imagePath} :
       AnswerOutputPath(Solo, outputPath)
  \/ \E value \in {None} \cup {Some(s) : s \in MinDimInputs} : AnswerMinDimension(Solo, value)
  \/ \E answer \in {None} \cup {Some(a) : a \in ExactAnswers} : AnswerExact(Solo, answer)
  \/ \E imagePath \in DirectImages, options \in DirectOptions :
       DirectCall(Solo, imagePath, options)
  \/ \E mkdirOk \in BOOLEAN : RunnerCall(Solo, mkdirOk)
  \/ \E r \in SpawnOutcomes : RunnerReturn(Solo, r)
  \/ ShowResult(Solo)
  \/ \E openFile \in {None, Some(StrOpenFile)} : AnswerInfo(Solo, openFile)
  \/ \E cfg \in Configs : ConfigChange(cfg)
  \/ \E errorMsg \in HostErrors : Throw(Solo, errorMsg)

Spec == Init /\ [][Next]_vars

----------------------------------------------------------------------------
(* Termination: a handler on one image; the user answers, types into the   *)
(* custom-size box, edits the settings or dismisses; the processes exit.   *)

(* The steps that take a started handler forward: the answers of the user  *)
(* (who may also dismiss), the exits of the external processes, and the    *)
(* continuations the event loop of the host runs.                          *)
Advance(i) ==
  \/ \E r \in ProbeOutcomes : ProbeReturn(i, r)
  \/ Precheck(i)
  \/ \E selected \in {None} \cup {Some(s) : s \in PickedSizes} : AnswerSizePick(i, selected)
  \/ \E value \in {None, Some(<<"1",".","5","M","B">>)} : AnswerSizeCustom(i, value)
  \/ \E format \in {None, Some(formats[3])} : AnswerFormat(i, format)
  \/ \E outputPath \in {None, Some(<<>>), Some(OutCustom)} : AnswerOutputPath(i, outputPath)
  \/ \E value \in {None, Some(<<"1","5","0">>)} : AnswerMinDimension(i, value)
  \/ \E answer \in {None, Some(StrNo)} : AnswerExact(i, answer)
  \/ \E mkdirOk \in BOOLEAN : RunnerCall(i, mkdirOk)
  \/ \E r \in SpawnOutcomes : RunnerReturn(i, r)
  \/ ShowResult(i)
  \/ \E openFile \in {None, Some(StrOpenFile)} : AnswerInfo(i, openFile)

InitLive ==
  /\ fs = FsBase
  /\ config = CfgDefault
  /\ edits = 0
  /\ activeEditor = None
  /\ proc = None
  /\ h = [i \in Inv |-> IdleInv]

NextLive ==
  \/ \E kind \in {"simple", "advanced"} : Start(Solo, kind, Some(ImgJpg), None)
  \/ \E value \in SizeInputs : TypeSizeCustom(Solo, value)
  \/ \E cfg \in Configs : ConfigChange(cfg)
  \/ \E errorMsg \in HostErrors : Throw(Solo, errorMsg)
  \/ Advance(Solo)

(* The assumption that every prompt and notification is eventually         *)
(* answered or dismissed, that every external process eventually exits     *)
(* and that the host runs the continuations that are ready.                *)
SpecLive == InitLive /\ [][NextLive]_vars /\ WF_vars(Advance(Solo))

----------------------------------------------------------------------------
(* The executable path under every configured value: the settings hold an  *)
(* arbitrary string for imgbytesizerPath and a command is invoked, which   *)
(* starts the version probe on the path getImgbytesizerPath returns.       *)

(* The longest configured path that is enumerated.                         *)
MaxPathLen == 3

PathAlphabet == {"/", ".", ";", "|", "a", " "}

PathStrings ==
  UNION {[1..n -> PathAlphabet] : n \in 0..MaxPathLen}
  \cup {StrImgbytesizer,
        <<" ">> \o StrImgbytesizer \o <<";">>,
        <<"/","u","&","$",Grave,"x">>,
        <<".","/","i",";","b","s">>,
        <<"i","b","s">>}

PathConfigs ==
  {CfgDefault} \cup {[CfgDefault EXCEPT !.imgbytesizerPath = Some(p)] : p \in PathStrings}

InitPaths ==
  /\ fs = FsBase
  /\ config \in PathConfigs
  /\ edits = 0
  /\ activeEditor = None
  /\ proc = None
  /\ h = [i \in Inv |-> IdleInv]

NextPaths ==
  \/ \E kind \in {"simple", "advanced"} : Start(Solo, kind, Some(ImgJpg), None)
  \/ \E r \in ProbeOutcomes : ProbeReturn(Solo, r)

SpecPaths == InitPaths /\ [][NextPaths]_vars

----------------------------------------------------------------------------
(* getDefaultOutputPath on every short path: runImgbytesizer is called     *)
(* without an output path on an existing file of any name, or the simple   *)
(* command is invoked on it.                                               *)

(* The longest input path that is enumerated.                              *)
MaxOutLen == 4

OutAlphabet == {"/", ".", "a"}

OutPaths ==
  UNION {[1..n -> OutAlphabet] : n \in 1..MaxOutLen}
  \cup {<<"/","d","/","a","r","c","h","i","v","e",".","t","a","r",".","g","z">>, <<"/","d","/","n","o","e","x","t">>, ImgJpg, ImgPng}

OutFormats == {None, Some(StrSame), Some(<<>>), Some(<<"p","n","g">>)}

OutOptions ==
  [targetSize : {<<"1","M","B">>}, outputPath : {None}, format : OutFormats,
   minDimension : {None}, exactSize : {None}]

InitOut ==
  /\ fs \in {{p} : p \in OutPaths}
  /\ config \in Configs
  /\ edits = 0
  /\ activeEditor = None
  /\ proc = None
  /\ h = [i \in Inv |-> IdleInv]

NextOut ==
  \/ \E p \in fs \cap OutPaths : \E o \in OutOptions : DirectCall(Solo, p, o)
  \/ \E p \in fs \cap OutPaths : Start(Solo, "simple", Some(p), None)
  \/ ProbeReturn(Solo, [threw |-> FALSE, status |-> Some(0)])
  \/ Precheck(Solo)
  \/ AnswerSizePick(Solo, Some(defaultOptions[4]))
  \/ \E mkdirOk \in BOOLEAN : RunnerCall(Solo, mkdirOk)

SpecOut == InitOut /\ [][NextOut]_vars

----------------------------------------------------------------------------
(* isValidTargetSize on every short text: the user types it, a character   *)
(* at a time, into the custom-size box of a handler.                       *)

(* The longest typed text that is enumerated.                              *)
MaxSizeLen == 4

SizeAlphabet == {"1", ".", "K", "b", "M", " "}

(* Texts the user pastes over the text of the box.                         *)
SizePastes ==
      {<<"1",".","5","M","B">>, <<"5","0","0","k","b">>, <<"1","K","B","K","B">>, <<"1",".","1",".","1","K","B">>, <<"1","0",".","2","5","m","B">>, <<"1",".","5"," ","M","B">>, <<"1",".","5","G","B">>, <<"-","1","K","B">>,
        <<"1","K","B","\n">>}

(* The text of the custom-size box: the last validated text, at first the  *)
(* value option of the box (lines 279 and 287).                            *)
SizeBoxText(me) ==
  IF me.validated # None THEN me.validated[1].value
  ELSE Coalesce(getDefaultOptions(config).targetSize, <<"5","0","0","K","B">>)

(* The texts one edit leads to: the text cleared, a character typed at its *)
(* end, or a text pasted over it.                                          *)
SizeEdits(text) ==
  {<<>>} \cup {text \o <<c>> : c \in {x \in SizeAlphabet : Len(text) < MaxSizeLen}}
  \cup SizePastes

InitSizes ==
  /\ fs = FsBase
  /\ config = CfgDefault
  /\ edits = 0
  /\ activeEditor = None
  /\ proc = None
  /\ h = [i \in Inv |-> IdleInv]

NextSizes ==
  \/ \E kind \in {"simple", "advanced"} : Start(Solo, kind, Some(ImgJpg), None)
  \/ \E r \in ProbeOutcomes : ProbeReturn(Solo, r)
  \/ Precheck(Solo)
  \/ AnswerSizePick(Solo, Some(customOption))
  \/ \E value \in SizeEdits(SizeBoxText(h[Solo])) : TypeSizeCustom(Solo, value)
  \/ AnswerSizeCustom(Solo, Some(SizeBoxText(h[Solo])))

SpecSizes == InitSizes /\ [][NextSizes]_vars

----------------------------------------------------------------------------
(* Two invocations of the simple command on the same image, interleaved    *)
(* as the single-threaded extension host allows it.                        *)

(* The first two invocations.                                              *)
Pair == {i \in Inv : i <= Solo + 1}

InitTwo ==
  /\ fs = FsBase
  /\ config = CfgDefault
  /\ edits = 0
  /\ activeEditor = None
  /\ proc = None
  /\ h = [i \in Inv |-> IdleInv]

(* The steps of invocation i.                                              *)
StepTwo(i) ==
  \/ Start(i, "simple", Some(ImgJpg), None)
  \/ \E r \in ProbeOutcomes : ProbeReturn(i, r)
  \/ Precheck(i)
  \/ \E selected \in {None, Some(defaultOptions[4])} : AnswerSizePick(i, selected)
  \/ RunnerCall(i, TRUE)
  \/ \E r \in SpawnOutcomes : RunnerReturn(i, r)
  \/ ShowResult(i)
  \/ \E openFile \in {None, Some(StrOpenFile)} : AnswerInfo(i, openFile)

NextTwo == \E i \in Pair : StepTwo(i)

SpecTwo == InitTwo /\ [][NextTwo]_vars

----------------------------------------------------------------------------
(* Two invocations of either command, each on its own image and with its   *)
(* own answers, interleaved at their prompts.                              *)

(* The image of an invocation, given as its URI argument.                  *)
ImageOf(i) == IF i = Solo THEN ImgJpg ELSE ImgPng

(* The outcomes of the resize process that are told apart here.            *)
InterleavedOutcomes ==
  {r \in SpawnOutcomes : ~r.threw /\ r.error = None /\ r.status # None /\ r.wrote}

StepInterleaved(i) ==
  \/ \E kind \in {"simple", "advanced"} : Start(i, kind, Some(ImageOf(i)), None)
  \/ ProbeReturn(i, [threw |-> FALSE, status |-> Some(0)])
  \/ Precheck(i)
  \/ \E selected \in {None, Some(defaultOptions[1]), Some(defaultOptions[4])} :
       AnswerSizePick(i, selected)
  \/ \E format \in {None} \cup {Some(f) : f \in PickedFormats} : AnswerFormat(i, format)
  \/ \E outputPath \in {Some(<<>>), Some(OutCustom)} : AnswerOutputPath(i, outputPath)
  \/ \E value \in {Some(<<"0">>), Some(<<"1","5","0">>)} : AnswerMinDimension(i, value)
  \/ \E answer \in {Some(a) : a \in ExactAnswers} : AnswerExact(i, answer)
  \/ RunnerCall(i, TRUE)
  \/ \E r \in InterleavedOutcomes : RunnerReturn(i, r)
  \/ ShowResult(i)
  \/ AnswerInfo(i, None)

NextInterleaved == \E i \in Pair : StepInterleaved(i)

SpecInterleaved == InitTwo /\ [][NextInterleaved]_vars

----------------------------------------------------------------------------
(* Vocabulary of the properties.                                           *)

(* The events of invocation i with the given name.                         *)
Events(i, name) == {k \in 1..Len(h[i].trace) : h[i].trace[k].ev = name}

(* The events a step appends to the trace of invocation i.                 *)
NewEvents(i) == SubSeq(h'[i].trace, Len(h[i].trace) + 1, Len(h'[i].trace))

HasEvent(evs, name) == \E k \in 1..Len(evs) : evs[k].ev = name

(* A step in which runImgbytesizer is called by invocation i.              *)
HasCalled(i) ==
  h[i].pc = "progress" /\ h'[i].pc # "progress" /\ HasEvent(NewEvents(i), "runImgbytesizer")

(* A step in which the spawnSync call of the runner returns.               *)
HasReturned(i) == h[i].pc = "spawned" /\ h'[i].pc # "spawned"

(* The process ran and ended (spawnSync neither threw nor reported an      *)
(* error).                                                                 *)
Exited(r) == ~r.threw /\ r.error = None

(* How often x occurs in the sequence s.                                   *)
Count(s, x) == Cardinality({k \in 1..Len(s) : s[k] = x})

(* The position of x in s when it occurs exactly once.                     *)
Pos(s, x) == CHOOSE k \in 1..Len(s) : s[k] = x

----------------------------------------------------------------------------
(* C1: a call of runImgbytesizer whose input image does not exist returns  *)
(* exactly {success: false, message: "Image file not found: <imagePath>"}  *)
(* with no outputPath, and in that call no directory is created and no     *)
(* process is spawned.                                                     *)
C1_NotFound ==
  [][\A i \in Inv :
       (HasCalled(i) /\ ~existsSync(fs, h[i].imagePath[1])) =>
         /\ h'[i].result = Some([success |-> FALSE,
                                 message |-> <<"Image file not found: ", h[i].imagePath[1]>>,
                                 outputPath |-> None])
         /\ fs' = fs
         /\ proc' = None
         /\ ~HasEvent(NewEvents(i), "mkdirSync")
         /\ ~HasEvent(NewEvents(i), "spawnSync")]_vars

(* The runner returned the not-found result for an image that is absent.   *)
C1_Witness ==
  \E i \in Inv :
    /\ h[i].result # None
    /\ h[i].result[1].message[1] = "Image file not found: "
    /\ h[i].imagePath[1] \notin fs

(* C2: when the process exits with status 0 and the resolved output file   *)
(* does not exist after the exit, the result is the failure "Failed to     *)
(* create output file: <outputPath>. Command output: <stdout>"; success is *)
(* never returned while the output path is absent at the check.            *)
C2_MissingArtifact ==
  [][\A i \in Inv :
       HasReturned(i) =>
         LET r == h'[i].outcome[1]
             out == ResolveOutputPath(h[i].imagePath[1], h[i].options[1])
         IN /\ (Exited(r) /\ r.status = Some(0) /\ ~existsSync(fs', out)) =>
                 h'[i].result = Some([success |-> FALSE,
                                      message |-> <<"Failed to create output file: ", out,
                                                   ". Command output: ", r.stdout>>,
                                      outputPath |-> None])
            /\ h'[i].result[1].success => existsSync(fs', out)]_vars

(* The tool exited with status 0, wrote nothing, and the runner reported   *)
(* the missing artifact.                                                   *)
C2_Witness ==
  \E i \in Inv :
    /\ h[i].outcome # None /\ h[i].result # None
    /\ h[i].outcome[1].status = Some(0)
    /\ h[i].result[1].message[1] = "Failed to create output file: "

(* C3: runImgbytesizer returns success exactly when the input existed, the *)
(* spawn reported no error, the exit status was 0 and the resolved output  *)
(* path exists afterwards; then the message is "Image resized successfully *)
(* to <targetSize>" and result.outputPath is options.outputPath when the   *)
(* caller supplied one (getDefaultOutputPath is then not consulted), else  *)
(* getDefaultOutputPath(imagePath, options.format).                        *)
C3_SuccessIff ==
  [][\A i \in Inv :
       LET options == h[i].options[1]
           imagePath == h[i].imagePath[1]
           expected == IF options.outputPath # None THEN options.outputPath[1]
                       ELSE getDefaultOutputPath(imagePath, options.format)
       IN /\ (HasCalled(i) /\ h'[i].result # None) => ~h'[i].result[1].success
          /\ HasReturned(i) =>
               LET r == h'[i].outcome[1]
                   res == h'[i].result[1]
               IN /\ res.success <=>
                       (Exited(r) /\ r.status = Some(0) /\ existsSync(fs', expected))
                  /\ res.success =>
                       /\ res.message = <<"Image resized successfully to ", options.targetSize>>
                       /\ res.outputPath = Some(expected)
                       /\ options.outputPath # None =>
                            Events(i, "getDefaultOutputPath") = {}]_vars

(* A successful run for a caller that supplied no output path.             *)
C3_Witness ==
  \E i \in Inv :
    /\ h[i].result # None /\ h[i].result[1].success
    /\ h[i].options[1].outputPath = None

(* C4: every result of runImgbytesizer carries an outputPath if and only   *)
(* if success is true.                                                     *)
C4_OutputPathIffSuccess ==
  \A i \in Inv :
    h[i].result # None => (h[i].result[1].outputPath # None <=> h[i].result[1].success)

(* A failure after the output path had been resolved and the file exists.  *)
C4_Witness ==
  \E i \in Inv :
    /\ h[i].result # None /\ ~h[i].result[1].success
    /\ h[i].run # None /\ existsSync(fs, h[i].run[1])

(* C5: when the process ends with an exit status other than 0 (null        *)
(* included) the result is "Command failed with status <status>. Error:    *)
(* <stderr>" and the existence of the output file is not consulted.        *)
C5_NonZeroExit ==
  [][\A i \in Inv :
       (HasReturned(i) /\ Exited(h'[i].outcome[1])
        /\ h'[i].outcome[1].status # Some(0)) =>
         LET r == h'[i].outcome[1] IN
         /\ h'[i].result = Some([success |-> FALSE,
                                 message |-> <<"Command failed with status ",
                                              IF r.status = None THEN StrNull
                                              ELSE <<DigitChars[r.status[1] + 1]>>,
                                              ". Error: ", r.stderr>>,
                                 outputPath |-> None])
         /\ ~HasEvent(NewEvents(i), "existsSync")]_vars

(* The process was killed (status null), the output file exists, and the   *)
(* runner reported the failed command.                                     *)
C5_Witness ==
  \E i \in Inv :
    /\ h[i].outcome # None /\ h[i].result # None
    /\ h[i].outcome[1].status = None /\ h[i].outcome[1].error = None
    /\ ~h[i].outcome[1].threw
    /\ existsSync(fs, h[i].run[1])
    /\ h[i].result[1].message[1] = "Command failed with status "

(* C6: when the process could not be started (spawn error) or a step       *)
(* throws (directory creation, the spawn call), runImgbytesizer returns    *)
(* {success: false, message: "Error: <underlying message>"}: it does not   *)
(* end without a result, and the message differs from those of the         *)
(* non-zero exit and of the missing artifact.                              *)
C6_ErrorResult ==
  [][\A i \in Inv :
       /\ (HasReturned(i) /\ ~Exited(h'[i].outcome[1])) =>
            LET r == h'[i].outcome[1] IN
            h'[i].result = Some([success |-> FALSE,
                                 message |-> <<"Error: ",
                                              IF r.threw THEN ErrThrown ELSE r.error[1]>>,
                                 outputPath |-> None])
       /\ (HasCalled(i) /\ HasEvent(NewEvents(i), "mkdirSync")
           /\ ~HasEvent(NewEvents(i), "spawnSync")) =>
            h'[i].result = Some([success |-> FALSE,
                                 message |-> <<"Error: ", ErrMkdir>>,
                                 outputPath |-> None])
       /\ (HasReturned(i) /\ Exited(h'[i].outcome[1])) =>
            h'[i].result[1].message[1] # "Error: "]_vars

(* The spawn reported an error and the runner returned the error result.   *)
C6_Witness ==
  \E i \in Inv :
    /\ h[i].outcome # None /\ h[i].result # None
    /\ h[i].outcome[1].error # None
    /\ h[i].result[1].message[1] = "Error: "

(* C7: the argument vector passed to the tool is, in this order,           *)
(* [imagePath, targetSize], then "-o" and the output path iff outputPath   *)
(* is set (present and non-empty, the test the code applies), then "-f"    *)
(* and the format iff format is set (present and non-empty) and not        *)
(* "same", then "--min-dimension" and the decimal string of minDimension   *)
(* iff minDimension is set and > 0, then "--no-exact" iff exactSize is     *)
(* false; each flag occurs at most once and "--min-dimension" never        *)
(* occurs for minDimension 0 or undefined.                                 *)
C7_ArgumentVector ==
  \A i \in Inv :
    h[i].spawned # None =>
      LET args == h[i].spawned[1].args
          o == h[i].options[1]
          hasO == o.outputPath # None /\ o.outputPath[1] # <<>>
          hasF == o.format # None /\ o.format[1] # <<>> /\ o.format[1] # StrSame
          hasM == o.minDimension # None /\ o.minDimension[1] > 0
          hasE == o.exactSize = Some(FALSE)
          N(b) == IF b THEN 1 ELSE 0
          pO == 3
          pF == pO + 2 * N(hasO)
          pM == pF + 2 * N(hasF)
          pE == pM + 2 * N(hasM)
      IN /\ Len(args) = 2 + 2 * N(hasO) + 2 * N(hasF) + 2 * N(hasM) + N(hasE)
         /\ args[1] = h[i].imagePath[1]
         /\ args[2] = o.targetSize
         /\ Count(args, <<"-","o">>) = N(hasO)
         /\ Count(args, <<"-","f">>) = N(hasF)
         /\ Count(args, <<"-","-","m","i","n","-","d","i","m","e","n","s","i","o","n">>) = N(hasM)
         /\ Count(args, <<"-","-","n","o","-","e","x","a","c","t">>) = N(hasE)
         /\ hasO => args[pO] = <<"-","o">> /\ args[pO + 1] = o.outputPath[1]
         /\ hasF => args[pF] = <<"-","f">> /\ args[pF + 1] = o.format[1]
         /\ hasM => /\ args[pM] = <<"-","-","m","i","n","-","d","i","m","e","n","s","i","o","n">>
                    /\ \A k \in 1..Len(args[pM + 1]) : IsDigit(args[pM + 1][k])
                    /\ args[pM + 1][1] # "0"
                    /\ parseInt(args[pM + 1]) = o.minDimension
         /\ hasE => args[pE] = <<"-","-","n","o","-","e","x","a","c","t">>

(* The tool was spawned with all four optional flags.                      *)
C7_Witness ==
  \E i \in Inv :
    /\ h[i].spawned # None
    /\ h[i].spawned[1].args =
         <<ImgJpg, <<"1","M","B">>, <<"-","o">>, OutCustom, <<"-","f">>, <<"p","n","g">>,
           <<"-","-","m","i","n","-","d","i","m","e","n","s","i","o","n">>, <<"2","0","0">>,
           <<"-","-","n","o","-","e","x","a","c","t">>>>

C9_Case(i) ==
  /\ h[i].kind = "simple"
  /\ h[i].spawned # None
  /\ h[i].defaults # None
  /\ h[i].defaults[1].format = Some(StrSame)
  /\ h[i].defaults[1].minDimension = Some(0)
  /\ h[i].defaults[1].exactSize = Some(TRUE)
  /\ \E k \in 1..Len(defaultOptions) : h[i].targetSize = Some(defaultOptions[k])

(* C9 as stated: in that case the argument vector is exactly               *)
(* [imagePath, S], with no optional flag.                                  *)
C9_Original ==
  \A i \in Inv :
    C9_Case(i) => h[i].spawned[1].args = <<h[i].imagePath[1], h[i].targetSize[1]>>

(* C9, amended: in that case the argument vector is exactly                *)
(* [imagePath, S, "-o", getDefaultOutputPath(imagePath, "same")], with     *)
(* none of -f, --min-dimension and --no-exact; when the tool exits with    *)
(* status 0 and that file exists the result message is "Image resized      *)
(* successfully to S".                                                     *)
C9_SimpleFlow ==
  \A i \in Inv :
    C9_Case(i) =>
      LET out == getDefaultOutputPath(h[i].imagePath[1], Some(StrSame)) IN
      /\ h[i].spawned[1].args = <<h[i].imagePath[1], h[i].targetSize[1], <<"-","o">>, out>>
      /\ (h[i].outcome # None /\ Exited(h[i].outcome[1])
          /\ h[i].outcome[1].status = Some(0) /\ existsSync(fs, out)) =>
           h[i].result[1].message =
             <<"Image resized successfully to ", h[i].targetSize[1]>>

(* The simple flow resized /d/a.jpg to the preset 1MB under the defaults.  *)
C9_Witness ==
  \E i \in Inv :
    /\ C9_Case(i)
    /\ h[i].spawned[1].args = <<ImgJpg, <<"1","M","B">>, <<"-","o">>, ImgJpgResized>>
    /\ h[i].result # None
    /\ h[i].result[1].message = <<"Image resized successfully to ", <<"1","M","B">>>>

(* C10: in both flows, when a prompt (size pick, custom-size box, format   *)
(* pick, output-path box, min-dimension box, exact-size pick) returns no   *)
(* answer, the handler returns: no further prompt is issued,               *)
(* runImgbytesizer is not invoked, no directory is created, no resize      *)
(* process is spawned and no notification is shown.                        *)
C10_SilentCancel ==
  \A i \in Inv :
    \A k \in Events(i, "answer") :
      h[i].trace[k].value = None =>
        /\ k = Len(h[i].trace)
        /\ h[i].pc = "done"
        /\ h[i].result = None
        /\ Events(i, "runImgbytesizer") = {}
        /\ Events(i, "withProgress") = {}
        /\ Events(i, "mkdirSync") = {}
        /\ Events(i, "showErrorMessage") = {}
        /\ Events(i, "showInformationMessage") = {}
        /\ \A s \in Events(i, "spawnSync") : h[i].trace[s].args = << <<"-","v">> >>

(* The advanced flow was abandoned at the output-path box.                 *)
C10_Witness ==
  \E i \in Inv :
    \E k \in Events(i, "answer") :
      h[i].trace[k].what = "outputPath" /\ h[i].trace[k].value = None


(* A handler invocation (simple or advanced flow).                         *)
IsHandler(i) == h[i].kind \in {"simple", "advanced"}

(* C11: for every handler invocation that reaches runImgbytesizer, the     *)
(* options object passed never has format equal to "same" and never has    *)
(* minDimension equal to 0: a chosen or configured "same" and a chosen or  *)
(* configured 0 are passed as absent.                                      *)
C11_NoSameNoZero ==
  \A i \in Inv :
    IsHandler(i) =>
      \A k \in Events(i, "runImgbytesizer") :
        LET o == h[i].trace[k].options IN
        /\ o.format # <<<<"s","a","m","e">>>>
        /\ o.minDimension # <<0>>
        /\ (h[i].kind = "advanced" /\ h[i].format = <<<<"s","a","m","e">>>>) => o.format = <<>>
        /\ (h[i].kind = "advanced" /\ h[i].minDimension = <<0>>) => o.minDimension = <<>>
        /\ (h[i].kind = "simple" /\ h[i].defaults[1].format = <<<<"s","a","m","e">>>>) => o.format = <<>>
        /\ (h[i].kind = "simple" /\ h[i].defaults[1].minDimension = <<0>>) =>
             o.minDimension = <<>>

(* The advanced flow called the runner after the user chose "same" and 0.  *)
C11_Witness ==
  \E i \in Inv :
    /\ h[i].kind = "advanced"
    /\ h[i].format = <<<<"s","a","m","e">>>>
    /\ h[i].minDimension = <<0>>
    /\ Events(i, "runImgbytesizer") # {}


(* The size grammar, written out: one or more digits, optionally a dot and *)
(* one or more digits, then KB, MB or B in either case.                    *)
Digits09 == {"0", "1", "2", "3", "4", "5", "6", "7", "8", "9"}

AllDigits(s) == Len(s) > 0 /\ \A k \in 1..Len(s) : s[k] \in Digits09

SizeUnits ==
  {<<k, b>> : k \in {"k", "K", "m", "M"}, b \in {"b", "B"}} \cup {<<"b">>, <<"B">>}

InSizeGrammar(s) ==
  \E a \in 1..Len(s) : \E u \in (a + 1)..(Len(s) + 1) :
    /\ AllDigits(SubSeq(s, 1, a))
    /\ SubSeq(s, u, Len(s)) \in SizeUnits
    /\ \/ u = a + 1
       \/ s[a + 1] = "." /\ AllDigits(SubSeq(s, a + 2, u - 1))

(* C12: with a text prompt that only returns values its validateInput      *)
(* accepted, every targetSize a handler passes to runImgbytesizer matches  *)
(* the size grammar: every preset matches it, and a custom entry is        *)
(* accepted as the target size only when it matches it.                    *)
C12_ValidTargetSize ==
  /\ \A k \in 1..Len(defaultOptions) : InSizeGrammar(defaultOptions[k])
  /\ \A i \in Inv :
       IsHandler(i) =>
         /\ \A k \in Events(i, "runImgbytesizer") :
              InSizeGrammar(h[i].trace[k].options.targetSize)
         /\ h[i].targetSize # None => InSizeGrammar(h[i].targetSize[1])

(* A handler called the runner with the custom entry 1.5MB.                *)
C12_Witness ==
  \E i \in Inv :
    /\ IsHandler(i)
    /\ \E k \in Events(i, "answer") :
         h[i].trace[k].what = "customSize" /\ h[i].trace[k].value = <<<<"1",".","5","M","B">>>>
    /\ \E k \in Events(i, "runImgbytesizer") : h[i].trace[k].options.targetSize = <<"1",".","5","M","B">>


(* C13 as stated: in the advanced flow every string the minimum-dimension  *)
(* validator accepts is the decimal notation of a non-negative integer and *)
(* the minDimension carried forward is that integer; digits followed by    *)
(* other characters are rejected.  The code accepts 12px (parseInt reads   *)
(* the leading digits) and carries 12 forward.                             *)
C13_Original ==
  \A i \in Inv :
    h[i].kind = "advanced" =>
      \A k \in Events(i, "answer") :
        (h[i].trace[k].what = "minDimension" /\ h[i].trace[k].value # None) =>
          /\ AllDigits(h[i].trace[k].value[1])
          /\ h[i].minDimension = <<DigitsValue(h[i].trace[k].value[1], 1, 0)>>


(* C14: in the advanced flow, when the user submits an empty string at the *)
(* output-path prompt the outputPath passed to the runner is               *)
(* getDefaultOutputPath(imagePath, chosen format with "same" as absent),   *)
(* never the empty string; a non-empty submission is passed unchanged.     *)
C14_EmptyOutputPath ==
  \A i \in Inv :
    h[i].kind = "advanced" =>
      \A k \in Events(i, "runImgbytesizer") :
        LET passed == h[i].trace[k].options.outputPath
            typed == h[i].outputPath[1]
            chosen == IF h[i].format = <<<<"s","a","m","e">>>> THEN <<>> ELSE h[i].format
        IN /\ passed # <<>> /\ passed # << <<>> >>
           /\ h[i].trace[k].imagePath = h[i].imagePath[1]
           /\ IF typed = <<>>
              THEN passed = <<getDefaultOutputPath(h[i].imagePath[1], chosen)>>
              ELSE passed = <<typed>>

(* The advanced flow ran on /d/a.jpg with format png and an empty answer   *)
(* at the output-path prompt: the runner got /d/a_resized.png.             *)
C14_Witness ==
  \E i \in Inv :
    /\ h[i].kind = "advanced"
    /\ h[i].imagePath = <<<<"/","d","/","a",".","j","p","g">>>>
    /\ h[i].format = <<<<"p","n","g">>>>
    /\ h[i].outputPath = << <<>> >>
    /\ \E k \in Events(i, "runImgbytesizer") :
         h[i].trace[k].options.outputPath = <<<<"/","d","/","a","_","r","e","s","i","z","e","d",".","p","n","g">>>>


(* The prompts an invocation issued.                                       *)
Prompts(i) == Events(i, "showQuickPick") \cup Events(i, "showInputBox")

(* The error messages an invocation showed, in order.                      *)
RECURSIVE ErrorsOf(_)
ErrorsOf(trace) ==
  IF trace = <<>> THEN <<>>
  ELSE (IF Head(trace).ev = "showErrorMessage" THEN <<Head(trace).msg>> ELSE <<>>)
       \o ErrorsOf(Tail(trace))

(* C15: in both handlers, when the resolved image path has an extension    *)
(* other than .jpg, .jpeg, .png or .webp (compared case-insensitively),    *)
(* exactly one error message, "Selected file is not a supported image      *)
(* (jpg, jpeg, png, webp).", is shown, no prompt is ever issued and         *)
(* runImgbytesizer is never invoked.                                       *)
C15_UnsupportedExtension ==
  \A i \in Inv :
    (/\ IsHandler(i)
     /\ h[i].imagePath # None
     /\ toLowerCase(extname(h[i].imagePath[1])) \notin {<<".","j","p","g">>, <<".","j","p","e","g">>, <<".","p","n","g">>, <<".","w","e","b","p">>}) =>
      /\ h[i].pc = "done"
      /\ ErrorsOf(h[i].trace) =
           << <<"Selected file is not a supported image (jpg, jpeg, png, webp).">> >>
      /\ Prompts(i) = {}
      /\ Events(i, "runImgbytesizer") = {}

(* A handler was invoked on /d/n.txt and showed the message.               *)
C15_Witness ==
  \E i \in Inv :
    /\ IsHandler(i)
    /\ h[i].imagePath = <<<<"/","d","/","n",".","t","x","t">>>>
    /\ Len(ErrorsOf(h[i].trace)) = 1

(* C16: in both handlers, when the version probe reports the tool as not   *)
(* installed, exactly one error message, beginning "ImgByteSizer is not    *)
(* installed", is shown and the handler returns: no prompt is issued and   *)
(* runImgbytesizer is never invoked.                                       *)
C16_NotInstalled ==
  \A i \in Inv :
    (IsHandler(i) /\ h[i].pc \notin {"probe", "probed"} /\ ~h[i].isInstalled) =>
      /\ h[i].pc = "done"
      /\ ErrorsOf(h[i].trace) =
           << <<"ImgByteSizer is not installed. Please install it first. https://github.com/pyyupsk/imgbytesizer#installation">> >>
      /\ Prompts(i) = {}
      /\ Events(i, "runImgbytesizer") = {}
      /\ h[i].imagePath = None

(* A handler returned after a probe that found the tool missing.           *)
C16_Witness ==
  \E i \in Inv :
    /\ IsHandler(i)
    /\ h[i].pc = "done"
    /\ ~h[i].isInstalled
    /\ Len(ErrorsOf(h[i].trace)) = 1

(* C17: in both handlers the image path is the URI argument when one is    *)
(* given, else the path of the active editor's document when an editor is  *)
(* active and its URI scheme is "file"; else the error "Please select an   *)
(* image file in the explorer or editor." is shown and the handler returns *)
(* without prompting or calling the runner.  The path passed to            *)
(* runImgbytesizer is the path so resolved.                                *)
C17_PathPrecedence ==
  \A i \in Inv :
    (IsHandler(i) /\ h[i].pc \notin {"probe", "probed"} /\ h[i].isInstalled) =>
      LET fromEditor == activeEditor # <<>> /\ activeEditor[1].scheme = "file" IN
      /\ h[i].uri # <<>> => h[i].imagePath = h[i].uri
      /\ (h[i].uri = <<>> /\ fromEditor) => h[i].imagePath = <<activeEditor[1].fsPath>>
      /\ (h[i].uri = <<>> /\ ~fromEditor) =>
           /\ h[i].pc = "done"
           /\ h[i].imagePath = <<>>
           /\ ErrorsOf(h[i].trace) =
                << <<"Please select an image file in the explorer or editor.">> >>
           /\ Prompts(i) = {}
           /\ Events(i, "runImgbytesizer") = {}
      /\ \A k \in Events(i, "runImgbytesizer") :
           <<h[i].trace[k].imagePath>> = h[i].imagePath

(* The runner was called on the URI argument /d/a.jpg while the active     *)
(* editor showed /e/B.PNG.                                                 *)
C17_Witness ==
  \E i \in Inv :
    /\ IsHandler(i)
    /\ h[i].uri = <<<<"/","d","/","a",".","j","p","g">>>>
    /\ activeEditor # <<>> /\ activeEditor[1].fsPath = <<"/","e","/","B",".","P","N","G">>
    /\ \E k \in Events(i, "runImgbytesizer") : h[i].trace[k].imagePath = <<"/","d","/","a",".","j","p","g">>


(* The report of the catch block for an error of message m.                *)
CatchReport(m) == <<"Error resizing image: ", m>>

(* C18: for both handlers, an exception raised by a call the handler       *)
(* awaits is caught inside the handler: the handler shows                  *)
(* "Error resizing image: <message>" exactly once and completes normally.  *)
(* The install check and the runner catch their own failures and return a  *)
(* value, so that a failure of theirs is reported by its own message and   *)
(* never raises in the handler.                                            *)
C18_HandlerCatches ==
  \A i \in Inv :
    IsHandler(i) =>
      /\ \A k \in Events(i, "throw") :
           /\ h[i].pc = "done"
           /\ k + 1 = Len(h[i].trace)
           /\ h[i].trace[k + 1] = [ev |-> "showErrorMessage",
                                   msg |-> CatchReport(h[i].trace[k].msg)]
           /\ Cardinality({e \in Events(i, "showErrorMessage") :
                             h[i].trace[e].msg[1] = "Error resizing image: "}) = 1
      /\ Events(i, "throw") = {} =>
           \A e \in Events(i, "showErrorMessage") :
             h[i].trace[e].msg[1] # "Error resizing image: "
      /\ (h[i].outcome # None /\ (h[i].outcome[1].threw \/ h[i].outcome[1].error # None)) =>
           h[i].result # None /\ h[i].result[1].message[1] = "Error: "

(* A handler caught a rejected prompt after its first answers.             *)
C18_Witness ==
  \E i \in Inv :
    /\ h[i].kind = "advanced"
    /\ h[i].format # None
    /\ Events(i, "throw") # {}
    /\ h[i].pc = "done"


(* C19: after the runner returned in either handler: if success is false   *)
(* the message of the result is shown verbatim as an error and no          *)
(* open-file command is issued; if success is true an information message  *)
(* with the single action "Open File" is shown, and the vscode.open        *)
(* command is issued, on the outputPath of the result, if and only if the  *)
(* user chooses "Open File".                                               *)
C19_ResultNotification ==
  \A i \in Inv :
    (IsHandler(i) /\ h[i].result # None) =>
      LET r == h[i].result[1]
          opens == Events(i, "executeCommand")
          offers == {k \in Events(i, "showInformationMessage") : h[i].trace[k].items # <<>>}
          chose == \E k \in Events(i, "choice") : h[i].trace[k].item = <<<<"O","p","e","n"," ","F","i","l","e">>>>
      IN IF ~r.success
         THEN /\ opens = {}
              /\ Events(i, "showInformationMessage") = {}
              /\ h[i].pc = "done" => ErrorsOf(h[i].trace) = <<r.message>>
         ELSE /\ h[i].pc \in {"info", "done"} =>
                   /\ Cardinality(offers) = 1
                   /\ \A k \in offers : h[i].trace[k].items = <<<<"O","p","e","n"," ","F","i","l","e">>>>
              /\ \A k \in opens : /\ h[i].trace[k].command = "vscode.open"
                                  /\ <<h[i].trace[k].path>> = r.outputPath
              /\ Cardinality(opens) <= 1
              /\ opens # {} => chose
              /\ (h[i].pc = "done" /\ chose) => opens # {}
              /\ \A e \in Events(i, "showErrorMessage") : h[i].trace[e].msg # r.message

(* The user chose Open File after a successful resize of /d/a.jpg.         *)
C19_Witness ==
  \E i \in Inv :
    /\ IsHandler(i)
    /\ h[i].result # None /\ h[i].result[1].success
    /\ \E k \in Events(i, "executeCommand") : h[i].trace[k].path = <<"/","d","/","a","_","r","e","s","i","z","e","d",".","j","p","g">>


(* s without the characters ; & | $ and the grave accent.                  *)
RECURSIVE WithoutMeta(_)
WithoutMeta(s) ==
  IF s = <<>> THEN <<>>
  ELSE (IF Head(s) \in {";", "&", "|", "$", "GRAVE"} THEN <<>> ELSE <<Head(s)>>)
       \o WithoutMeta(Tail(s))

(* C20: for every configured value of imgbytesizerPath, the path           *)
(* getImgbytesizerPath returns (the executable of the probe) contains none *)
(* of the characters ; & | $ and grave accent, and is either exactly       *)
(* imgbytesizer or begins with / or ./ ; a configured path containing ;    *)
(* is used with that character removed: the path is imgbytesizer or the    *)
(* trimmed configured value without those characters.                      *)
C20_SanitizedPath ==
  \A i \in Inv :
    \A k \in Events(i, "spawnSync") :
      LET file == h[i].trace[k].file IN
      /\ \A c \in 1..Len(file) : file[c] \notin {";", "&", "|", "$", "GRAVE"}
      /\ \/ file = <<"i","m","g","b","y","t","e","s","i","z","e","r">>
         \/ Len(file) >= 1 /\ file[1] = "/"
         \/ Len(file) >= 2 /\ file[1] = "." /\ file[2] = "/"
      /\ \/ file = <<"i","m","g","b","y","t","e","s","i","z","e","r">>
         \/ /\ config.imgbytesizerPath # <<>>
            /\ file = WithoutMeta(trim(config.imgbytesizerPath[1]))

(* The probe was started on /a for the configured path /a;                 *)
C20_Witness ==
  \E i \in Inv :
    /\ config.imgbytesizerPath = <<<<"/","a",";">>>>
    /\ \E k \in Events(i, "spawnSync") : h[i].trace[k].file = <<"/","a">>


(* s is made of white space only (the empty string included).              *)
OnlySpaces(s) == \A k \in 1..Len(s) : s[k] \in {" ", "\t", "\n", "\r"}

(* t is s without its leading and trailing white space.                    *)
IsTrimOf(t, s) ==
  \E a \in 1..(Len(s) + 1) :
    \E b \in 0..Len(s) :
      /\ t = SubSeq(s, a, b)
      /\ \A k \in 1..(a - 1) : s[k] \in {" ", "\t", "\n", "\r"}
      /\ \A k \in (b + 1)..Len(s) : s[k] \in {" ", "\t", "\n", "\r"}
      /\ t # <<>> => t[1] \notin {" ", "\t", "\n", "\r"}
                     /\ t[Len(t)] \notin {" ", "\t", "\n", "\r"}

(* C21: getImgbytesizerPath (the executable of the probe) is imgbytesizer  *)
(* when the configured path is absent, empty or made of white space only;  *)
(* when the configured value without its surrounding white space begins    *)
(* with / or ./ and holds none of ; & | $ and the grave accent, the        *)
(* executable is exactly that trimmed value.                               *)
C21_DefaultAndTrim ==
  \A i \in Inv :
    \A k \in Events(i, "spawnSync") :
      LET file == h[i].trace[k].file
          p == config.imgbytesizerPath
      IN /\ (p = <<>> \/ OnlySpaces(p[1])) => file = <<"i","m","g","b","y","t","e","s","i","z","e","r">>
         /\ p # <<>> =>
              \A a \in 1..(Len(p[1]) + 1) :
                \A b \in 0..Len(p[1]) :
                  LET t == SubSeq(p[1], a, b) IN
                  ( /\ IsTrimOf(t, p[1])
                    /\ \/ Len(t) >= 1 /\ t[1] = "/"
                       \/ Len(t) >= 2 /\ t[1] = "." /\ t[2] = "/"
                    /\ \A c \in 1..Len(t) : t[c] \notin {";", "&", "|", "$", "GRAVE"} )
                  => file = t

(* The probe was started on /a for the configured path " /a", and on       *)
(* imgbytesizer for a configured path of two spaces.                       *)
C21_Witness ==
  \E i \in Inv :
    \E k \in Events(i, "spawnSync") :
      \/ config.imgbytesizerPath = << <<" ","/","a">> >> /\ h[i].trace[k].file = <<"/","a">>
            /\ h[i].pc = "probed"
      \/ config.imgbytesizerPath = << <<" "," ">> >> /\ h[i].trace[k].file = <<"i","m","g","b","y","t","e","s","i","z","e","r">>
            /\ h[i].pc = "probed" /\ h[i].kind = "advanced"


(* C22: getImgbytesizerPath never throws: every started invocation has     *)
(* spawned its probe on a path the function returned, and for every        *)
(* configured value whose sanitized form (trimmed, without ; & | $ and     *)
(* the grave accent) is neither imgbytesizer nor a path beginning with /   *)
(* or ./ the path is the default imgbytesizer.                             *)
C22_NeverThrows ==
  \A i \in Inv :
    h[i].pc # "idle" =>
      /\ Events(i, "spawnSync") # {}
      /\ \A n \in 1..Len(h[i].trace) : h[i].trace[n].ev # "throw"
      /\ \A k \in Events(i, "spawnSync") :
           LET file == h[i].trace[k].file
               p == config.imgbytesizerPath
           IN /\ Len(file) > 0
              /\ p # <<>> =>
                   \A a \in 1..(Len(p[1]) + 1) :
                     \A b \in 0..Len(p[1]) :
                       LET s == WithoutMeta(SubSeq(p[1], a, b)) IN
                       ( /\ IsTrimOf(SubSeq(p[1], a, b), p[1])
                         /\ s # <<"i","m","g","b","y","t","e","s","i","z","e","r">>
                         /\ ~(Len(s) >= 1 /\ s[1] = "/")
                         /\ ~(Len(s) >= 2 /\ s[1] = "." /\ s[2] = "/") )
                       => file = <<"i","m","g","b","y","t","e","s","i","z","e","r">>

(* The probe was started on imgbytesizer for the configured path ;a which  *)
(* is rejected after sanitizing, and the handler went on.                  *)
C22_Witness ==
  \E i \in Inv :
    /\ config.imgbytesizerPath = << <<";","a">> >>
    /\ h[i].pc = "probed"
    /\ \E k \in Events(i, "spawnSync") : h[i].trace[k].file = <<"i","m","g","b","y","t","e","s","i","z","e","r">>


(* The positions of the events with the given name in a sequence.          *)
Positions(evs, name) == {k \in 1..Len(evs) : evs[k].ev = name}

(* C23: in a runImgbytesizer call whose input exists, mkdirSync is         *)
(* requested exactly once, for the directory of the resolved output path,  *)
(* when that directory does not exist at the check, and not at all when    *)
(* it exists; the request precedes the spawn of the tool, and no other     *)
(* step of the invocation requests a directory.                            *)
C23_MkdirOnce ==
  [][\A i \in Inv :
       LET new == NewEvents(i)
           mk == Positions(new, "mkdirSync")
       IN IF HasCalled(i) /\ h[i].imagePath[1] \in fs
          THEN LET dir == dirname(h'[i].run[1])
                   there == dir \in fs \cup {<<"/">>, <<".">>}
               IN /\ ~there => Cardinality(mk) = 1 /\ \A k \in mk : new[k].path = dir
                  /\ there => mk = {}
                  /\ \A k \in mk : \A s \in Positions(new, "spawnSync") : k < s
                  /\ Cardinality(Positions(h'[i].trace, "mkdirSync")) <= 1
          ELSE mk = {}]_vars

(* A call with the output path /o/c.png while /o did not exist: /o was     *)
(* created and then the tool was spawned.                                  *)
C23_Witness ==
  \E i \in Inv :
    /\ h[i].pc = "spawned"
    /\ h[i].run = << <<"/","o","/","c",".","p","n","g">> >>
    /\ \E k \in Events(i, "mkdirSync") :
         /\ h[i].trace[k].path = <<"/","o">>
         /\ \E s \in Events(i, "spawnSync") : k < s /\ <<"/","o","/","c",".","p","n","g">> \in { h[i].trace[s].args[n] : n \in 1..Len(h[i].trace[s].args) }


(* C24: checkImgbytesizerInstalled runs the resolved executable with the   *)
(* single argument -v (the first thing an invocation does) and returns     *)
(* true exactly when that process exited with status 0; when the process   *)
(* could not be started, or exited with another status, it returns false   *)
(* without throwing: the handler goes on to its own error message.         *)
C24_VersionProbe ==
  \A i \in Inv :
    IsHandler(i) =>
      /\ h[i].trace[1].ev = "spawnSync"
      /\ h[i].trace[1].args = << <<"-","v">> >>
      /\ h[i].pc \in {"probe", "probed"} =>
           h[i].trace[1].file \in {<<"i","m","g","b","y","t","e","s","i","z","e","r">>, <<"/","u","/","i","b","s">>} /\ Len(h[i].trace) = 1
      /\ h[i].pc = "probe" <=> h[i].probe = <<>>
      /\ h[i].probe # <<>> =>
           /\ h[i].isInstalled <=>
                (~h[i].probe[1].threw /\ h[i].probe[1].status = <<0>>)
           /\ \A k \in 1..Len(h[i].trace) : h[i].trace[k].ev # "throw" \/ k > 2
           /\ (h[i].probe[1].threw \/ h[i].probe[1].status # <<0>>) /\ h[i].pc = "done" =>
                /\ Len(h[i].trace) = 2
                /\ h[i].trace[2].ev = "showErrorMessage"

(* The probe could not be started (no status): the function returned false *)
(* and the handler showed its error.                                       *)
C24_Witness ==
  \E i \in Inv :
    /\ IsHandler(i)
    /\ h[i].probe # <<>> /\ ~h[i].probe[1].threw /\ h[i].probe[1].status = <<>>
    /\ ~h[i].isInstalled
    /\ h[i].pc = "done"


(* The position of the last c in s, 0 when there is none.                  *)
LastIndexOf(s, c) ==
  IF \E k \in 1..Len(s) : s[k] = c
  THEN CHOOSE k \in 1..Len(s) : s[k] = c /\ \A n \in (k + 1)..Len(s) : s[n] # c
  ELSE 0

(* s without its trailing slashes, a path of slashes only being the root.  *)
RECURSIVE DropTrailingSlashes(_)
DropTrailingSlashes(s) ==
  IF Len(s) > 1 /\ s[Len(s)] = "/" THEN DropTrailingSlashes(SubSeq(s, 1, Len(s) - 1))
  ELSE s

(* The directory and the file name of a path: the parts before and after   *)
(* its last slash, trailing slashes apart.                                 *)
DirOf(p) ==
  LET q == DropTrailingSlashes(p)
      k == LastIndexOf(q, "/")
  IN IF k = 0 THEN <<>> ELSE IF k = 1 THEN <<"/">> ELSE SubSeq(q, 1, k - 1)

FileNameOf(p) ==
  LET q == DropTrailingSlashes(p) IN SubSeq(q, LastIndexOf(q, "/") + 1, Len(q))

(* The stem and the extension of a file name split at its last dot; with   *)
(* dotFiles, a name whose last dot is its first character has no           *)
(* extension.                                                              *)
SplitAtLastDot(base, dotFiles) ==
  LET k == LastIndexOf(base, ".") IN
  IF k = 0 \/ (dotFiles /\ k = 1)
  THEN [stem |-> base, ext |-> <<>>]
  ELSE [stem |-> SubSeq(base, 1, k - 1), ext |-> SubSeq(base, k, Len(base))]

(* .format for a non-empty format other than same, the original extension *)
(* otherwise.                                                              *)
NewExtOf(format, ext) ==
  IF format # <<>> /\ format[1] # <<>> /\ format[1] # <<"s","a","m","e">>
  THEN <<".">> \o format[1] ELSE ext

(* dir joined with the file name made of stem, _resized and the new        *)
(* extension, the name being split at its last dot.                        *)
JoinedResizedName(p, format) ==
  LET parts == SplitAtLastDot(FileNameOf(p), FALSE) IN
  pathJoin(DirOf(p), parts.stem \o <<"_","r","e","s","i","z","e","d">>
                     \o NewExtOf(format, parts.ext))

(* dir joined with stem, followed by _resized and the new extension, a     *)
(* name whose only dot is its first character having no extension.         *)
ResizedName(p, format) ==
  LET parts == SplitAtLastDot(FileNameOf(p), TRUE) IN
  pathJoin(DirOf(p), parts.stem) \o <<"_","r","e","s","i","z","e","d">>
  \o NewExtOf(format, parts.ext)

(* C25 as stated: for every input path and format, getDefaultOutputPath    *)
(* returns dir joined with stem_resized and ext, stem and the original     *)
(* extension being split at the last dot of the file name.                 *)
C25_Original ==
  \A i \in Inv :
    \A k \in Events(i, "getDefaultOutputPath") :
      h[i].run = << JoinedResizedName(h[i].trace[k].imagePath, h[i].trace[k].format) >>

(* C25: for every format and every input path whose file name is not two   *)
(* dots, getDefaultOutputPath returns dir joined with stem, then _resized  *)
(* and ext, where stem and the original extension are split at the last    *)
(* dot of the file name unless that dot is the first character of the      *)
(* name (then the whole name is the stem and the extension is empty), and  *)
(* ext is . and the format when the format is non-empty and not same,      *)
(* otherwise the original extension.                                       *)
C25_DefaultOutputPath ==
  \A i \in Inv :
    \A k \in Events(i, "getDefaultOutputPath") :
      FileNameOf(h[i].trace[k].imagePath) # <<".", ".">> =>
        h[i].run = << ResizedName(h[i].trace[k].imagePath, h[i].trace[k].format) >>

(* The default output path of /.a with the format same is /.a_resized, of  *)
(* /d/archive.tar.gz it is /d/archive.tar_resized.gz.                      *)
C25_Witness ==
  \E i \in Inv :
    /\ h[i].options # <<>> /\ h[i].options[1].format = << <<"s","a","m","e">> >>
    /\ \E k \in Events(i, "getDefaultOutputPath") :
         \/ h[i].trace[k].imagePath = <<"/",".","a">> /\ h[i].run = << <<"/",".","a","_","r","e","s","i","z","e","d">> >>
         \/ h[i].trace[k].imagePath = <<"/","d","/","a","r","c","h","i","v","e",".","t","a","r",".","g","z">> /\ h[i].run = << <<"/","d","/","a","r","c","h","i","v","e",".","t","a","r","_","r","e","s","i","z","e","d",".","g","z">> >>


(* C26: isValidTargetSize(s), the verdict of validateInput on a typed      *)
(* text, is true exactly when the whole of s is one or more digits,        *)
(* optionally a dot and one or more digits, then one of the units KB, MB   *)
(* or B in any letter case; it is false for the empty text, a missing or   *)
(* doubled unit, a unit before the number, white space anywhere, a dot     *)
(* without digits after it and more than one decimal point.                *)
C26_SizeGrammar ==
  \A i \in Inv :
    h[i].validated # <<>> =>
      LET s == h[i].validated[1].value
          ok == h[i].validated[1].message = <<>>
      IN /\ ok <=> InSizeGrammar(s)
         /\ s = <<>> => ~ok
         /\ (\A k \in 1..Len(s) : s[k] \in Digits09 \cup {"."}) => ~ok
         /\ (\E k \in 1..Len(s) : s[k] \in {" ", "\t", "\n", "\r"}) => ~ok
         /\ (Len(s) > 0 /\ s[1] \notin Digits09) => ~ok
         /\ (\E k \in 1..Len(s) : s[k] = "." /\ (k = Len(s) \/ s[k + 1] \notin Digits09)) => ~ok
         /\ Cardinality({k \in 1..Len(s) : s[k] = "."}) > 1 => ~ok
         /\ Cardinality({k \in 1..Len(s) : s[k] \in {"b", "B"}}) > 1 => ~ok

(* The text 1.1b was typed and accepted, in the box of a handler.          *)
C26_Witness ==
  \E i \in Inv :
    /\ h[i].pc = "size_custom"
    /\ h[i].validated = << [value |-> <<"1",".","1","b">>, message |-> <<>>] >>


(* The steps of runImgbytesizer that reach outside the function.           *)
RunnerSteps == {"existsSync", "mkdirSync", "spawnSync"}

(* The steps of the runImgbytesizer call at position r of a trace are in   *)
(* the order input check, directory check, directory creation, spawn,      *)
(* artifact check, each at most once.                                      *)
RunnerOrder(t, r, outputPath) ==
  LET steps == {k \in (r + 1)..Len(t) : t[k].ev \in RunnerSteps}
      ex == {k \in steps : t[k].ev = "existsSync"}
      mk == {k \in steps : t[k].ev = "mkdirSync"}
      sp == {k \in steps : t[k].ev = "spawnSync"}
  IN /\ r + 1 \in ex /\ t[r + 1].path = t[r].imagePath
     /\ \A k \in steps : k # r + 1 => outputPath # <<>>
     /\ Cardinality(sp) <= 1 /\ Cardinality(mk) <= 1 /\ Cardinality(ex) <= 3
     /\ \A m \in mk : m - 1 \in ex /\ m - 1 > r + 1 /\ t[m - 1].path = t[m].path
     /\ \A s \in sp :
          /\ \A m \in mk : m < s
          /\ Cardinality({e \in ex : e < s}) = 2
          /\ t[s].args[1] = t[r].imagePath
          /\ \A e \in ex : e > s => e = s + 1 /\ t[e].path = outputPath[1]
     /\ sp = {} => Cardinality(ex) <= 2

(* C27: every runImgbytesizer invocation performs its steps in the order   *)
(* input-existence check, output-directory check and creation, spawn, exit *)
(* classification, output-artifact check; the tool is spawned at most once *)
(* per invocation, the artifact is looked at only after an exit with       *)
(* status 0, and once a result (not found, error, non-zero exit, missing   *)
(* artifact, success) is produced no further step of the invocation runs.  *)
C27_RunnerOrder ==
  [][\A i \in Inv :
       LET t == h'[i].trace
           runs == Positions(t, "runImgbytesizer")
       IN /\ Cardinality(runs) <= 1
          /\ \A r \in runs :
               /\ RunnerOrder(t, r, h'[i].run)
               /\ \A s \in Positions(t, "spawnSync") :
                    (s > r /\ s < Len(t) /\ t[s + 1].ev = "existsSync") =>
                        /\ h'[i].outcome # <<>>
                        /\ ~h'[i].outcome[1].threw
                        /\ h'[i].outcome[1].error = <<>>
                        /\ h'[i].outcome[1].status = <<0>>
          /\ runs = {} => \A k \in 1..Len(t) : t[k].ev \notin {"existsSync", "mkdirSync"}
          /\ h[i].result # <<>> =>
               /\ h'[i].result = h[i].result
               /\ \A k \in 1..Len(NewEvents(i)) :
                    NewEvents(i)[k].ev \notin RunnerSteps \cup {"runImgbytesizer"}]_vars

(* A call went through all five steps: input check, directory check and    *)
(* creation, spawn, and the artifact check after an exit with status 0.    *)
C27_Witness ==
  \E i \in Inv :
    /\ h[i].result # <<>> /\ h[i].result[1].success
    /\ \E r \in Events(i, "runImgbytesizer") :
         /\ Len(h[i].trace) >= r + 5
         /\ h[i].trace[r + 1].ev = "existsSync"
         /\ h[i].trace[r + 2].ev = "existsSync"
         /\ h[i].trace[r + 3].ev = "mkdirSync"
         /\ h[i].trace[r + 4].ev = "spawnSync"
         /\ h[i].trace[r + 5].ev = "existsSync"


(* The prompts and the answers of a trace, in order.                       *)
PromptTrail(t) ==
  SelectSeq(t, LAMBDA e : e.ev \in {"showQuickPick", "showInputBox", "answer"})

(* The prompts of the advanced flow and their answers, in order, with the  *)
(* custom-size text box when custom tells that it was asked for.           *)
AdvancedScript(custom) ==
  << <<"showQuickPick", "size">>, <<"answer", "size">> >>
  \o (IF custom THEN << <<"showInputBox", "size">>, <<"answer", "customSize">> >> ELSE << >>)
  \o << <<"showQuickPick", "format">>, <<"answer", "format">>,
        <<"showInputBox", "outputPath">>, <<"answer", "outputPath">>,
        <<"showInputBox", "minDimension">>, <<"answer", "minDimension">>,
        <<"showQuickPick", "exactSize">>, <<"answer", "exactSize">> >>

(* C28: in the advanced flow the prompts are issued in the order target    *)
(* size (then the custom-size text box only if Custom size... was picked), *)
(* output format, output path, minimum dimension, exact size; each prompt  *)
(* is issued only after the previous one returned an answer, and           *)
(* runImgbytesizer is invoked only after all five steps were answered.     *)
C28_AdvancedOrder ==
  \A i \in Inv :
    h[i].kind = "advanced" =>
      LET trail == PromptTrail(h[i].trace)
          custom == \E k \in 1..Len(trail) :
                      /\ trail[k].ev = "answer" /\ trail[k].what = "size"
                      /\ trail[k].value = << <<"C","u","s","t","o","m"," ","s","i","z","e",".",".",".">> >>
          script == AdvancedScript(custom)
      IN /\ Len(trail) <= Len(script)
         /\ \A k \in 1..Len(trail) :
              /\ <<trail[k].ev, trail[k].what>> = script[k]
              /\ (trail[k].ev # "answer" /\ k > 1) =>
                   trail[k - 1].ev = "answer" /\ trail[k - 1].value # <<>>
         /\ \A r \in Events(i, "runImgbytesizer") \cup Events(i, "withProgress") :
              /\ Len(trail) = Len(script)
              /\ trail[Len(trail)].value # <<>>
              /\ Cardinality({n \in 1..(r - 1) : h[i].trace[n].ev = "answer"})
                   = Len(script) \div 2
              /\ \A k \in (r + 1)..Len(h[i].trace) : h[i].trace[k].ev # "answer"

(* An advanced invocation called runImgbytesizer after six answered        *)
(* prompts, the custom-size box among them.                                *)
C28_Witness ==
  \E i \in Inv :
    /\ h[i].kind = "advanced"
    /\ Events(i, "runImgbytesizer") # {}
    /\ Len(PromptTrail(h[i].trace)) = 12
    /\ \E k \in Events(i, "showInputBox") : h[i].trace[k].what = "size"


(* The error messages of the precondition checks.                          *)
PreconditionErrors == {MsgNotInstalled, MsgNoFile, MsgUnsupported}

(* The positions at which a handler reported a precondition error.         *)
PreconditionReports(i) ==
  {k \in Events(i, "showErrorMessage") : h[i].trace[k].msg \in PreconditionErrors}

C30_Original ==
  \A i \in Pair :
    \A j \in Pair \ {i} :
      (proc = <<i>> /\ h[i].pc = "spawned"
         /\ h[j].pc \in {"idle", "size_pick", "info"})
      => ENABLED StepTwo(j)


(* The value invocation i was answered at the prompt what (the prompt was  *)
(* answered once).                                                         *)
AnswerOf(i, what) ==
  h[i].trace[CHOOSE k \in Events(i, "answer") : h[i].trace[k].what = what].value

HasAnswer(i, what) == \E k \in Events(i, "answer") : h[i].trace[k].what = what

(* The options an invocation has to pass, from its own image, its own      *)
(* answers and the configuration defaults (which are not changed here).    *)
OwnOptions(i) ==
  IF h[i].kind = "simple"
  THEN [exactSize |-> <<TRUE>>, format |-> <<>>, minDimension |-> <<>>,
        outputPath |-> << getDefaultOutputPath(ImageOf(i), <<>>) >>,
        targetSize |-> AnswerOf(i, "size")[1]]
  ELSE LET f == AnswerOf(i, "format")
           o == AnswerOf(i, "outputPath")
           m == AnswerOf(i, "minDimension")
           format == IF f = << <<"s","a","m","e">> >> THEN <<>> ELSE f
       IN [exactSize |-> << AnswerOf(i, "exactSize") = << <<"Y","e","s">> >> >>,
           format |-> format,
           minDimension |-> IF m = << <<"0">> >> THEN <<>> ELSE << 150 >>,
           outputPath |-> IF o = << <<>> >>
                          THEN << getDefaultOutputPath(ImageOf(i), format) >> ELSE o,
           targetSize |-> AnswerOf(i, "size")[1]]

(* C31: for any interleaving of two handler invocations, the image path    *)
(* and the options each passes to runImgbytesizer are determined by its    *)
(* own argument, its own prompt answers and the configuration: no answer   *)
(* given to one appears in the options of the other, and a cancelled       *)
(* invocation leaves the other as it is.                                   *)
C31_OwnOptions ==
  \A i \in Pair :
    /\ \A k \in Events(i, "runImgbytesizer") :
         /\ h[i].trace[k].imagePath = ImageOf(i)
         /\ h[i].trace[k].options = OwnOptions(i)
    /\ \A k \in Events(i, "spawnSync") :
         k > 1 => h[i].trace[k].args[1] = ImageOf(i)
                  /\ h[i].trace[k].args[2] = AnswerOf(i, "size")[1]
    /\ (h[i].pc = "progress" /\ h[i].options # <<>>) => h[i].options[1] = OwnOptions(i)

(* One invocation was answered 100KB and cancelled at its format prompt,   *)
(* the other called runImgbytesizer with its own answer, 1MB.              *)
C31_Witness ==
  \E i \in Pair :
    \E j \in Pair \ {i} :
      /\ h[j].kind = "advanced" /\ h[j].pc = "done"
      /\ HasAnswer(j, "size") /\ AnswerOf(j, "size") = << <<"1","0","0","K","B">> >>
      /\ HasAnswer(j, "format") /\ AnswerOf(j, "format") = <<>>
      /\ \E k \in Events(i, "runImgbytesizer") :
           h[i].trace[k].options.targetSize = <<"1","M","B">>


(* C32 as stated: runImgbytesizer returns success only if the output file  *)
(* came into existence during the run of its process: when the process     *)
(* exits with status 0 without writing anything, the result is not a       *)
(* success, also when a file already existed at the resolved output path.  *)
C32_Original ==
  \A i \in Inv :
    (h[i].result # <<>> /\ h[i].result[1].success) =>
      h[i].outcome # <<>> /\ h[i].outcome[1].wrote


(* C33 as stated: for every options value passed to runImgbytesizer, the   *)
(* empty outputPath included, the path whose directory is ensured and      *)
(* whose existence is verified after the process exited is the value       *)
(* passed after -o when -o is passed, and                                  *)
(* getDefaultOutputPath(imagePath, options.format) when it is not.         *)
C33_Original ==
  \A i \in Inv :
    \A r \in Events(i, "runImgbytesizer") :
      \A s \in Events(i, "spawnSync") :
        s > r =>
          LET args == h[i].trace[s].args
              flagged == {k \in 1..(Len(args) - 1) : args[k] = <<"-","o">>}
              expected == IF flagged # {} THEN args[(CHOOSE k \in flagged : TRUE) + 1]
                          ELSE getDefaultOutputPath(h[i].trace[r].imagePath,
                                                    h[i].trace[r].options.format)
          IN /\ h[i].run = <<expected>>
             /\ \A e \in Events(i, "existsSync") : e > s => h[i].trace[e].path = expected


(* C34 as stated: within one handler invocation the executable the resize  *)
(* is spawned with is the executable that passed the version probe at the  *)
(* start of the invocation, also when the imgbytesizerPath setting changes *)
(* while the invocation is suspended at a prompt.                          *)
C34_Original ==
  \A i \in Inv :
    IsHandler(i) =>
      \A s \in Events(i, "spawnSync") : h[i].trace[s].file = h[i].trace[1].file


(* C35 as stated: no advanced-flow invocation passes to runImgbytesizer an *)
(* outputPath equal to the input image path, whatever the user types at    *)
(* the output-path prompt.                                                 *)
C35_Original ==
  \A i \in Inv :
    h[i].kind = "advanced" =>
      \A k \in Events(i, "runImgbytesizer") :
        h[i].trace[k].options.outputPath # << h[i].trace[k].imagePath >>


(* C36: for every image path p and every format f (absent, same or any     *)
(* other value) getDefaultOutputPath(p, f) differs from p; hence every     *)
(* simple-flow invocation passes to the runner an outputPath, and one that *)
(* differs from the input image path.                                      *)
C36_NeverTheInput ==
  \A i \in Inv :
    /\ \A k \in Events(i, "getDefaultOutputPath") :
         /\ h[i].run # <<>>
         /\ h[i].run[1] # h[i].trace[k].imagePath
    /\ h[i].kind = "simple" =>
         \A k \in Events(i, "runImgbytesizer") :
           /\ h[i].trace[k].options.outputPath # <<>>
           /\ h[i].trace[k].options.outputPath[1] # h[i].trace[k].imagePath
           /\ h[i].trace[k].imagePath = h[i].uri[1]
           /\ h[i].run = h[i].trace[k].options.outputPath

(* The simple command on /e/B.PNG called the runner with the output path   *)
(* /e/B_resized.PNG.                                                       *)
C36_Witness ==
  \E i \in Inv :
    /\ h[i].kind = "simple"
    /\ \E k \in Events(i, "runImgbytesizer") :
         /\ h[i].trace[k].imagePath = <<"/","e","/","B",".","P","N","G">>
         /\ h[i].trace[k].options.outputPath = << <<"/","e","/","B","_","r","e","s","i","z","e","d",".","P","N","G">> >>


(* The tokens of an argument vector as a command line writes them after    *)
(* the executable: each after a space, the image path (the first) and the  *)
(* output path (the one after -o) between double quotes.                   *)
RECURSIVE CommandTail(_, _)
CommandTail(args, k) ==
  IF k > Len(args) THEN <<>>
  ELSE LET quoted == k = 1 \/ (k = 4 /\ args[3] = <<"-","o">>) IN
       <<" ">> \o (IF quoted THEN <<"\"">> \o args[k] \o <<"\"">> ELSE args[k])
       \o CommandTail(args, k + 1)

(* C37: for every image path and options value the argument vector built   *)
(* inline by runImgbytesizer is the sequence of tokens buildCommand        *)
(* produces after the executable name, the double quotes around the image  *)
(* path and the output path apart: the same flags, under the same          *)
(* conditions, in the same order.                                          *)
C37_SameArguments ==
  \A i \in Inv :
    \A r \in Events(i, "runImgbytesizer") :
      \A s \in Events(i, "spawnSync") :
        s > r =>
          \A cfg \in Configs :
            buildCommand(cfg, h[i].trace[r].imagePath, h[i].trace[r].options)
              = getImgbytesizerPath(cfg) \o CommandTail(h[i].trace[s].args, 1)

(* A call with an output path, the format png, the minimum dimension 200   *)
(* and exactSize false: seven tokens after the image path.                 *)
C37_Witness ==
  \E i \in Inv :
    \E s \in Events(i, "spawnSync") :
      /\ Len(h[i].trace[s].args) = 9
      /\ h[i].trace[s].args[7] = <<"-","-","m","i","n","-","d","i","m","e","n","s","i","o","n">>
      /\ buildCommand(CfgDefault, h[i].imagePath[1], h[i].options[1])
           = <<"i","m","g","b","y","t","e","s","i","z","e","r"," ","\"","/","d","/","a",".","j","p","g","\""," ","1","M","B"," ","-","o"," ","\"","/","o","/","c",".","p","n","g","\""," ","-","f"," ","p","n","g"," ","-","-","m","i","n","-","d","i","m","e","n","s","i","o","n"," ","2","0","0"," ","-","-","n","o","-","e","x","a","c","t">>


(* What a handler showed and opened once its runner had been called: the   *)
(* names of its notifications and open-file commands, in order.            *)
RECURSIVE ResultReports(_)
ResultReports(t) ==
  IF t = <<>> THEN <<>>
  ELSE (IF Head(t).ev \in {"showInformationMessage", "showErrorMessage", "executeCommand"}
        THEN <<Head(t).ev>> ELSE <<>>) \o ResultReports(Tail(t))

(* C38 as stated: for the same runner result the simple handler and the    *)
(* advanced handler issue the same sequence of user notifications and      *)
(* open-file commands, and each shows exactly one result notification per  *)
(* completed run.                                                          *)
C38_Original ==
  \A i \in Pair :
    (IsHandler(i) /\ h[i].pc = "done" /\ h[i].result # <<>>) =>
      /\ Cardinality(Events(i, "showInformationMessage")
                     \cup Events(i, "showErrorMessage")) = 1
      /\ \A j \in Pair :
           ( /\ IsHandler(j) /\ h[j].pc = "done" /\ h[j].result # <<>>
             /\ h[j].result[1].success = h[i].result[1].success )
           => ResultReports(h[j].trace) = ResultReports(h[i].trace)


(* The progress scope of invocation i is open: withProgress was called and *)
(* its task, the last thing the handler awaits, has not returned.          *)
ProgressOpen(i) == Events(i, "withProgress") # {} /\ h[i].pc # "done"

(* C39 as stated: in both handlers the progress scope ends as soon as the  *)
(* result of the runner has been obtained and the result notification has  *)
(* been issued, without waiting for the user to answer or dismiss the      *)
(* Open File notification.                                                 *)
C39_Original ==
  \A i \in Inv :
    ( /\ IsHandler(i)
      /\ h[i].result # <<>>
      /\ \E k \in Events(i, "showInformationMessage") \cup Events(i, "showErrorMessage") :
           \E r \in Events(i, "runImgbytesizer") : r < k )
    => ~ProgressOpen(i)


(* C40: every handler invocation eventually returns, provided that every   *)
(* prompt and notification it awaits is eventually answered or dismissed   *)
(* and every external process it starts eventually exits.                  *)
C40_Terminates ==
  \A i \in Inv : (h[i].kind \in {"simple", "advanced"}) ~> (h[i].pc = "done")

(* An advanced invocation returned after a failed run of the tool.         *)
C40_Witness ==
  \E i \in Inv :
    /\ h[i].kind = "advanced"
    /\ h[i].pc = "done"
    /\ h[i].result # <<>> /\ ~h[i].result[1].success
    /\ h[i].outcome # <<>> /\ h[i].outcome[1].status = <<1>>

====
